---------------------------- MODULE Spec2Model ----------------------------
(***************************************************************************)
(* CubeWrld: the 27-piece cube state, the move committed at the end of an  *)
(* animation (useCubeAnimation), and the phase engine (analyzeCube with    *)
(* isCorrectlyPlaced, isOrientedForOLL, identify2LookOLL, identifyPLL).    *)
(*                                                                         *)
(* Numbers.  Positions are integer triples.  A piece's unit quaternion q   *)
(* is held as the integer 4-vector n = <<x, y, z, w>> with q = n / |n|:    *)
(* every rotation the program composes is a multiple of 90 degrees about   *)
(* x, y or z, whose half-angle sine and cosine are 0, 1, or sqrt(2)/2, so  *)
(* every stored quaternion is a positive multiple of an integer vector.    *)
(* Quaternion.normalize() becomes the reduction of n by the gcd of its     *)
(* components.  A vector rotated by q is the rational vector               *)
(* RotNum(v, n) / LenSq4(n); thresholds of the source (0.2, 0.5 rad, 0.9,  *)
(* ...) are kept as exact rational comparisons.                            *)
(***************************************************************************)
EXTENDS Integers, Sequences, FiniteSets, TLC

VARIABLES
    cubies,       \* useCubeAnimation: const [cubies, setCubies]
    isAnimating,  \* useCubeAnimation: const [isAnimating, setIsAnimating]
    activeMove,   \* animRef.current.activeMove
    turning,      \* animRef.current.currentAngle is strictly between 0 and targetAngle
    cubiesRef,    \* App: cubiesRef.current
    analysis,     \* App: const [analysis, setAnalysis]
    moveCount,    \* App: moveCountRef.current
    played,       \* history: the requested moves committed so far, in order
    rv,           \* rotateVector: the arguments of a call and the vectors returned
    isScrambling,     \* App: const [isScrambling, setIsScrambling]
    scrambleCount,    \* App: const [scrambleCount, setScrambleCount]
    resetTrigger,     \* App: const [resetTrigger, setResetTrigger]
    pendingNotation,  \* App: const [pendingNotation, setPendingNotation]
    moveCmd,          \* Scene: const [activeMove, setActiveMove], the moveCmd prop
    cmdObject,        \* which object that move is: it changes with every move stored
    camera,           \* useThree().camera: its right, up and back directions
    timers,           \* the setTimeout(performAnalysis, 50) calls not yet run
    mounted,          \* the Canvas has rendered NotationController and CubeModel
    dom,              \* what App and Scene rendered last: their handlers, the Canvas props
    hook,             \* what NotationController and CubeModel rendered last
    effects,          \* the useEffect effects of that render that wait to run
    origin,           \* history: who requested the active move
    classified,       \* history: the last snapshot given to analyzeCube, and by whom
    replay,           \* history: the cube made by whole moves (see TurnOf)
    scrambleCommits,  \* history: the commits counted by the scramble under way
    scrambles,        \* history: the scrambles started
    requests,         \* history: the swipes and the notation clicks taken for a move
    lag               \* history: the commits of a scramble App has not rendered yet

\* the state of App and Scene beyond the cube, and the history variables
appVars == <<isScrambling, scrambleCount, resetTrigger, pendingNotation, moveCmd,
            cmdObject, camera, timers>>
renderVars == <<mounted, dom, hook, effects>>
histVars == <<origin, classified, replay, scrambleCommits, scrambles, requests,
             lag>>

vars == <<cubies, isAnimating, activeMove, turning, cubiesRef, analysis,
          moveCount, played, rv, isScrambling, scrambleCount, resetTrigger,
          pendingNotation, moveCmd, cmdObject, camera, timers, mounted, dom,
          hook, effects, origin, classified, replay, scrambleCommits,
          scrambles, requests, lag>>

\* null and undefined of the source.  A value that may be missing and is not a
\* string is held as a sequence: << >> when missing, <<v>> when present.
Null == "null"
Undefined == "undefined"
None == << >>
Some(v) == <<v>>

\* A const of the source whose value is read more than once is bound by a set
\* constructor, Only({ body : v \in {e} }), which evaluates e once; Only is
\* the element of a singleton set.
Only(S) == CHOOSE v \in S : TRUE

\* The move sequences explored: a listed sequence (Scripts, below), then up to
\* MaxMoves moves chosen freely among all moves, then repeats of the last
\* move if it is a quarter turn, up to MaxRepeats of it in a row; or a
\* last-layer case (CaseScripts, below), then one move of Adjusts.
MaxMoves == 1
MaxRepeats == 4

\* rotateVector is applied up to MaxCalls times in a row, each time to the
\* vector it returned
MaxCalls == 2

\* the swipes and the notation clicks taken for a move, the scrambles
\* started, the clicks on Reset and the timers pending when a scramble is
\* started, in the exploration of the whole application; a scramble is
\* tried in the runs in which no move has been asked for, and a move is
\* asked for in the runs without a scramble
MaxRequests == 2
MaxTimers == 1
MaxScrambles == 1
MaxResets == 1

\* the commits of a scramble whose updates App has not rendered yet when the
\* next move of the scramble is committed
MaxLag == 1

---------------------------------------------------------------------------
\* Vectors (THREE.Vector3 on exact integers)

Abs(n) == IF n < 0 THEN -n ELSE n

VSub(a, b) == <<a[1] - b[1], a[2] - b[2], a[3] - b[3]>>

VNeg(a) == <<-a[1], -a[2], -a[3]>>

VScale(k, a) == <<k * a[1], k * a[2], k * a[3]>>

VAdd(a, b) == <<a[1] + b[1], a[2] + b[2], a[3] + b[3]>>

Dot(a, b) == a[1] * b[1] + a[2] * b[2] + a[3] * b[3]

Cross(a, b) == <<a[2] * b[3] - a[3] * b[2],
                 a[3] * b[1] - a[1] * b[3],
                 a[1] * b[2] - a[2] * b[1]>>

LenSq(a) == Dot(a, a)

DistSq(a, b) == LenSq(VSub(a, b))

\* Math.round of the rational num/den (den > 0): floor(num/den + 1/2)
MathRound(num, den) == (2 * num + den) \div (2 * den)

---------------------------------------------------------------------------
\* Quaternions (THREE.Quaternion), held as integer directions n, q = n/|n|

RECURSIVE Gcd(_, _)
Gcd(a, b) == IF b = 0 THEN a ELSE Gcd(b, a % b)

LenSq4(q) == q[1] * q[1] + q[2] * q[2] + q[3] * q[3] + q[4] * q[4]

\* new THREE.Quaternion(): (0, 0, 0, 1)
IdentityQuat == <<0, 0, 0, 1>>

\* Quaternion.normalize(): the canonical representative of the ray of n
QNormalize(q) ==
    LET g == Gcd(Gcd(Abs(q[1]), Abs(q[2])), Gcd(Abs(q[3]), Abs(q[4])))
    IN  IF g = 0 THEN IdentityQuat
        ELSE <<q[1] \div g, q[2] \div g, q[3] \div g, q[4] \div g>>

\* Quaternion.multiplyQuaternions(a, b)
QMul(a, b) ==
    <<a[1] * b[4] + a[4] * b[1] + a[2] * b[3] - a[3] * b[2],
      a[2] * b[4] + a[4] * b[2] + a[3] * b[1] - a[1] * b[3],
      a[3] * b[4] + a[4] * b[3] + a[1] * b[2] - a[2] * b[1],
      a[4] * b[4] - a[1] * b[1] - a[2] * b[2] - a[3] * b[3]>>

\* Quaternion.invert(): the conjugate
QInvert(q) == <<-q[1], -q[2], -q[3], q[4]>>

\* sin and cos of the half angle (PI/4) * direction, as a common multiple:
\* direction 1: (s, c) = (sqrt2/2, sqrt2/2) ~ (1, 1); -1: (-1, 1);
\* direction 2: (1, 0); -2: (-1, 0)
HalfSin(direction) ==
    CASE direction = 1 -> 1 [] direction = -1 -> -1
      [] direction = 2 -> 1 [] direction = -2 -> -1

HalfCos(direction) == IF Abs(direction) = 1 THEN 1 ELSE 0

AxisIndex(axis) == CASE axis = "x" -> 1 [] axis = "y" -> 2 [] axis = "z" -> 3

AxisVec(axis) == <<IF axis = "x" THEN 1 ELSE 0,
                   IF axis = "y" THEN 1 ELSE 0,
                   IF axis = "z" THEN 1 ELSE 0>>

\* setFromAxisAngle with the factor PI / 2 forgotten: the angle is `direction`
\* radians, whose half-angle tangent is near 1/2 for 1 and near 3/2 for 2
SetFromAxisAngleRadians(axisVec, direction) ==
    LET s == IF Abs(direction) = 1 THEN HalfSin(direction) ELSE 3 * HalfSin(direction)
    IN  <<axisVec[1] * s, axisVec[2] * s, axisVec[3] * s, 2>>

\* new THREE.Quaternion().setFromAxisAngle(axisVec, (Math.PI / 2) * direction)
SetFromAxisAngle(axisVec, direction) ==
    <<axisVec[1] * HalfSin(direction), axisVec[2] * HalfSin(direction),
      axisVec[3] * HalfSin(direction), HalfCos(direction)>>

\* Vector3.applyQuaternion(q), numerator over LenSq4(q):
\* t = 2 (q x v);  v' = v + q.w t + q x t
RotNum(v, q) ==
    LET qv == <<q[1], q[2], q[3]>>
        t  == VScale(2, Cross(qv, v))
    IN  VAdd(VScale(LenSq4(q), v), VAdd(VScale(q[4], t), Cross(qv, t)))

\* applyQuaternion where the result is known to be integral
ApplyQuaternion(v, q) ==
    LET n == RotNum(v, q)
        d == LenSq4(q)
    IN  <<n[1] \div d, n[2] \div d, n[3] \div d>>

---------------------------------------------------------------------------
\* Cube state (utils/cubeLogic.ts, types.ts)

Coords == <<-1, 0, 1>>

\* getInitialState: ids 0..26 in x, y, z loop order
getInitialState ==
    [i \in 1..27 |->
        LET p == <<Coords[((i - 1) \div 9) + 1],
                   Coords[(((i - 1) \div 3) % 3) + 1],
                   Coords[((i - 1) % 3) + 1]>>
        IN  [id |-> i - 1, initialPosition |-> p, position |-> p,
             rotation |-> <<0, 0, 0>>, quaternion |-> IdentityQuat]]

\* roundPos: Math.round
roundPos(v) == MathRound(v, 1)

\* rotateVector with the quarter turn about y turned the other way
rotateVectorLeftHandedY(vec, axis, direction) ==
    LET x == vec[1]  y == vec[2]  z == vec[3]  dir == direction
    IN  IF Abs(direction) = 2
        THEN CASE axis = "x" -> <<roundPos(x), roundPos(-y), roundPos(-z)>>
               [] axis = "y" -> <<roundPos(-x), roundPos(y), roundPos(-z)>>
               [] axis = "z" -> <<roundPos(-x), roundPos(-y), roundPos(z)>>
        ELSE IF axis = "x"
        THEN <<roundPos(x), roundPos(dir * (-z)), roundPos(dir * y)>>
        ELSE IF axis = "y"
        THEN <<roundPos(dir * (-z)), roundPos(y), roundPos(dir * x)>>
        ELSE <<roundPos(dir * (-y)), roundPos(dir * x), roundPos(z)>>

\* rotateVector(vec, axis, direction)
rotateVector(vec, axis, direction) ==
    LET x == vec[1]  y == vec[2]  z == vec[3]  dir == direction
    IN  IF Abs(direction) = 2
        THEN CASE axis = "x" -> <<roundPos(x), roundPos(-y), roundPos(-z)>>
               [] axis = "y" -> <<roundPos(-x), roundPos(y), roundPos(-z)>>
               [] axis = "z" -> <<roundPos(-x), roundPos(-y), roundPos(z)>>
        ELSE IF axis = "x"
        THEN <<roundPos(x), roundPos(dir * (-z)), roundPos(dir * y)>>
        ELSE IF axis = "y"
        THEN <<roundPos(dir * z), roundPos(y), roundPos(dir * (-x))>>
        ELSE <<roundPos(dir * (-y)), roundPos(dir * x), roundPos(z)>>

\* move.slice.includes(v)
Includes(arr, v) == \E i \in DOMAIN arr : arr[i] = v

Axes == {"x", "y", "z"}
Directions == {-2, -1, 1, 2}
\* one array per subset of the layer coordinates {-1, 0, 1}
SliceArrays == {<< >>, <<-1>>, <<0>>, <<1>>, <<1, 0>>, <<-1, 0>>, <<-1, 1>>,
                <<-1, 0, 1>>}
Moves == [axis : Axes, slice : SliceArrays, direction : Directions]

\* RotateCubie with the orientation update forgotten: only the position turns
RotateCubieKeepsQuaternion(c, move) ==
    LET rotQuat == SetFromAxisAngle(AxisVec(move.axis), move.direction)
        pos     == RotNum(c.position, rotQuat)
        den     == LenSq4(rotQuat)
    IN  [c EXCEPT !.position = <<MathRound(pos[1], den), MathRound(pos[2], den),
                                 MathRound(pos[3], den)>>]

\* the cubie after the move, for a cubie of the slice (Scene.tsx 226-236)
RotateCubie(c, move) ==
    LET axisVec == AxisVec(move.axis)
        rotQuat == SetFromAxisAngle(axisVec, move.direction)
        pos     == RotNum(c.position, rotQuat)
        den     == LenSq4(rotQuat)
    IN  [c EXCEPT !.position = <<MathRound(pos[1], den), MathRound(pos[2], den),
                                 MathRound(pos[3], den)>>,
                  !.quaternion = QNormalize(QMul(rotQuat, c.quaternion))]

\* ApplyMove with the slice membership read from the piece's origin instead of
\* its current position
ApplyMoveByOrigin(cs, move) ==
    [i \in DOMAIN cs |->
        IF ~Includes(move.slice, cs[i].initialPosition[AxisIndex(move.axis)])
        THEN cs[i]
        ELSE RotateCubie(cs[i], move)]

\* ApplyMove with the slice test forgotten: every piece is turned
ApplyMoveWholeCube(cs, move) ==
    [i \in DOMAIN cs |-> RotateCubie(cs[i], move)]

\* ApplyMove stopped half way through the array: of the pieces of the slice
\* only those among the first 13 are turned
ApplyMoveFirstPieces(cs, move) ==
    [i \in DOMAIN cs |->
        IF i > 13 \/ ~Includes(move.slice, cs[i].position[AxisIndex(move.axis)])
        THEN cs[i]
        ELSE RotateCubie(cs[i], move)]

\* newCubies = cubies.map(...) of the commit (Scene.tsx 220-237)
ApplyMove(cs, move) ==
    [i \in DOMAIN cs |->
        IF ~Includes(move.slice, cs[i].position[AxisIndex(move.axis)])
        THEN cs[i]
        ELSE RotateCubie(cs[i], move)]


---------------------------------------------------------------------------
\* Phase engine (utils/phaseEngine.ts)

SumAbs(p) == Abs(p[1]) + Abs(p[2]) + Abs(p[3])

isCenter(c) == SumAbs(c.initialPosition) = 1
isEdge(c) == SumAbs(c.initialPosition) = 2
isCorner(c) == SumAbs(c.initialPosition) = 3

\* Array.prototype.find, given the elements passing the test in array order:
\* the first of them, as an option
Find(passing) == IF Len(passing) = 0 THEN None ELSE Some(passing[1])

\* isCorrectlyPlaced with the inversion forgotten: the current vector is turned
\* by the piece's orientation instead of its inverse
isCorrectlyPlacedNoInvert(piece, center) ==
    LET vInit      == VSub(center.initialPosition, piece.initialPosition)
        vCurr      == VSub(center.position, piece.position)
        vCurrLocal == ApplyQuaternion(vCurr, piece.quaternion)
    IN  25 * DistSq(vCurrLocal, vInit) < 1

\* dist < 0.2 on exact vectors: 25 * dist^2 < 1
isCorrectlyPlaced(piece, center) ==
    LET vInit      == VSub(center.initialPosition, piece.initialPosition)
        vCurr      == VSub(center.position, piece.position)
        invPieceQ  == QInvert(piece.quaternion)
        vCurrLocal == ApplyQuaternion(vCurr, invPieceQ)
    IN  25 * DistSq(vCurrLocal, vInit) < 1

\* cos(ROT_EPSILON)^2 = cos(0.5)^2 = 0.770151..., in millionths
CosSqRotEpsilon == 770151

\* a.angleTo(b) < ROT_EPSILON: cos(angle) > cos(0.5)
AngleBelowRotEpsilon(a, b) ==
    /\ Dot(a, b) > 0
    /\ 1000000 * Dot(a, b) * Dot(a, b) > CosSqRotEpsilon * LenSq(a) * LenSq(b)

\* new THREE.Vector3(...topCenter.initialPosition).normalize(): the vector is
\* kept as it is, v = sqrt(NormSq(v)) * v.normalize(), and its squared length
\* enters every comparison made with the normalized vector; normalize()
\* leaves a zero vector as it is (divideScalar(length() || 1))
NormSq(v) == IF LenSq(v) = 0 THEN 1 ELSE LenSq(v)

\* d / sqrt(lenSq) > num / den, for num, den > 0
ScaledGreater(d, lenSq, num, den) == d > 0 /\ den * den * d * d > num * num * lenSq

\* |d| / sqrt(lenSq) < num / den, for num, den > 0
ScaledAbsLess(d, lenSq, num, den) == den * den * d * d < num * num * lenSq

isOrientedForOLL(piece, topCenter) ==
    LET localUp       == topCenter.initialPosition
        centerUpWorld == ApplyQuaternion(localUp, QNormalize(topCenter.quaternion))
        pieceUpWorld  == ApplyQuaternion(localUp, QNormalize(piece.quaternion))
    IN  AngleBelowRotEpsilon(centerUpWorld, pieceUpWorld)

---------------------------------------------------------------------------
\* PLL classifier (utils/pllPatterns.ts)

isOppositeColor(c1, c2) ==
    \E p \in {<<"U", "D">>, <<"L", "R">>, <<"F", "B">>} :
        (c1 = p[1] /\ c2 = p[2]) \/ (c1 = p[2] /\ c2 = p[1])

localNormals == <<[vec |-> <<1, 0, 0>>, color |-> "R"],
                  [vec |-> <<-1, 0, 0>>, color |-> "L"],
                  [vec |-> <<0, 1, 0>>, color |-> "U"],
                  [vec |-> <<0, -1, 0>>, color |-> "D"],
                  [vec |-> <<0, 0, 1>>, color |-> "F"],
                  [vec |-> <<0, 0, -1>>, color |-> "B"]>>

\* isValidNormal with the comparison turned round: a sticker is kept when the
\* piece does not have it
isValidNormalInverted(cubie, n) ==
    \A i \in 1..3 :
        ~(n.vec[i] # 0 /\ 10 * Abs(cubie.initialPosition[i] - n.vec[i]) < 1)

\* a sticker exists on the piece: Math.abs(p[i] - n.vec[i]) > 0.1 rejects
isValidNormal(cubie, n) ==
    \A i \in 1..3 :
        ~(n.vec[i] # 0 /\ 10 * Abs(cubie.initialPosition[i] - n.vec[i]) > 1)

\* the for loop of getStickerColor; maxDot is held in tenths
RECURSIVE StickerLoop(_, _, _, _, _, _)
StickerLoop(cubie, direction, validNormals, i, maxDot10, bestColor) ==
    IF i > Len(validNormals) THEN bestColor
    ELSE LET n           == validNormals[i]
             worldNormal == ApplyQuaternion(n.vec, cubie.quaternion)
             dot10       == 10 * Dot(worldNormal, direction)
         IN  IF dot10 > maxDot10
             THEN StickerLoop(cubie, direction, validNormals, i + 1, dot10, n.color)
             ELSE StickerLoop(cubie, direction, validNormals, i + 1, maxDot10,
                              bestColor)

\* let maxDot = 0.9, in tenths
StickerThreshold == 9

getStickerColor(cubie, direction) ==
    Only({ StickerLoop(cubie, direction, validNormals, 1, StickerThreshold, Null) :
           validNormals \in {SelectSeq(localNormals,
                                       LAMBDA n : isValidNormal(cubie, n))} })

candidates == <<<<1, 0, 0>>, <<-1, 0, 0>>, <<0, 1, 0>>, <<0, -1, 0>>,
                <<0, 0, 1>>, <<0, 0, -1>>>>

\* PLLFaceOf with headlights counted only where the edge matches as well
PLLFaceOfBarHeadlights(faceCorners, faceEdge, dir) ==
    Only({ [dir |-> dir, c1 |-> c1, c2 |-> c2, e |-> e,
            isHeadlights |-> (c1 # Null /\ c2 # Null /\ e # Null /\ c1 = c2 /\ c1 = e),
            isBar |-> (c1 # Null /\ c2 # Null /\ e # Null /\ c1 = c2 /\ c1 = e)] :
           c1 \in {IF Len(faceCorners) = 2
                    THEN getStickerColor(faceCorners[1], dir) ELSE Null},
           c2 \in {IF Len(faceCorners) = 2
                    THEN getStickerColor(faceCorners[2], dir) ELSE Null},
           e  \in {IF faceEdge # None
                    THEN getStickerColor(faceEdge[1], dir) ELSE Null} })

\* the record returned for one side, from its two corners and its edge
PLLFaceOf(faceCorners, faceEdge, dir) ==
    Only({ [dir |-> dir, c1 |-> c1, c2 |-> c2, e |-> e,
            isHeadlights |-> (c1 # Null /\ c2 # Null /\ c1 = c2),
            isBar |-> (c1 # Null /\ c2 # Null /\ e # Null /\ c1 = c2 /\ c1 = e)] :
           c1 \in {IF Len(faceCorners) = 2
                    THEN getStickerColor(faceCorners[1], dir) ELSE Null},
           c2 \in {IF Len(faceCorners) = 2
                    THEN getStickerColor(faceCorners[2], dir) ELSE Null},
           e  \in {IF faceEdge # None
                    THEN getStickerColor(faceEdge[1], dir) ELSE Null} })

\* one element of faces = sideDirs.map(...)
PLLFace(corners, edges, topCenter, dir) ==
    Only({ PLLFaceOf(faceCorners, faceEdge, dir) :
           faceCorners \in {SelectSeq(corners,
               LAMBDA c : 2 * Dot(VSub(c.position, topCenter.position), dir) > 1)},
           faceEdge \in {Find(SelectSeq(edges,
               LAMBDA e : 2 * Dot(VSub(e.position, topCenter.position), dir) > 1))} })

\* sideDirs.map(...) from index i on
RECURSIVE MapFaces(_, _, _, _, _)
MapFaces(corners, edges, topCenter, sideDirs, i) ==
    IF i > Len(sideDirs) THEN << >>
    ELSE <<PLLFace(corners, edges, topCenter, sideDirs[i])>>
             \o MapFaces(corners, edges, topCenter, sideDirs, i + 1)

PLLFaces(topPieces, topCenter) ==
    LET up == ApplyQuaternion(topCenter.initialPosition,
                              topCenter.quaternion)
    IN  Only({ MapFaces(corners, edges, topCenter, sideDirs, 1) :
               sideDirs \in {SelectSeq(candidates,
                                       LAMBDA v : ScaledAbsLess(Dot(v, up), NormSq(up), 1, 10))},
               corners  \in {SelectSeq(topPieces, isCorner)},
               edges    \in {SelectSeq(topPieces, isEdge)} })

\* the comparison of the Ua / Ub branch, given the bar's side
PLLFrontRight(faces, up, backFace) ==
    LET frontDir == VNeg(backFace.dir)
        rightDir == Cross(up, frontDir)
    IN  Only({ IF /\ frontFace # None
                  /\ rightFace # None
                  /\ frontFace[1].e # Null
                  /\ rightFace[1].c1 # Null
               THEN IF frontFace[1].e = rightFace[1].c1 THEN "PLL (Ua)"
                    ELSE "PLL (Ub)"
               ELSE "PLL (Ua)" :
               frontFace \in {Find(SelectSeq(faces,
                                  LAMBDA f : 10 * Dot(f.dir, frontDir) > 9))},
               rightFace \in {Find(SelectSeq(faces,
                                  LAMBDA f : ScaledGreater(Dot(f.dir, rightDir),
                                                           NormSq(up), 9, 10)))} })

\* the Ua / Ub branch (exactly one bar)
PLLOneBar(faces, up) ==
    Only({ IF backFace = None THEN "PLL (Ua)"
           ELSE PLLFrontRight(faces, up, backFace[1]) :
           backFace \in {Find(SelectSeq(faces, LAMBDA f : f.isBar))} })

\* PLLCaseOf without the strict solved check: four bars fall through to the
\* last branch
PLLCaseOfNoSolvedCheck(faces, up) ==
    LET headlightsCount == Cardinality({i \in DOMAIN faces : faces[i].isHeadlights})
        solvedBarsCount == Cardinality({i \in DOMAIN faces : faces[i].isBar})
    IN  IF headlightsCount = 0 THEN "Diagonal"
        ELSE IF headlightsCount = 1 THEN "Headlights"
        ELSE IF headlightsCount = 4
        THEN IF solvedBarsCount = 0
             THEN Only({ IF face # None
                         THEN IF isOppositeColor(face[1].c1, face[1].e)
                              THEN "PLL (H)" ELSE "PLL (Z)"
                         ELSE "PLL (Z)" :
                         face \in {Find(SelectSeq(faces,
                                      LAMBDA f : f.c1 # Null /\ f.e # Null))} })
             ELSE IF solvedBarsCount = 1 THEN PLLOneBar(faces, up)
             ELSE "PLL (Z)"
        ELSE "Unknown"

\* the classification, given the four sides
PLLCaseOf(faces, up) ==
    LET headlightsCount == Cardinality({i \in DOMAIN faces : faces[i].isHeadlights})
        solvedBarsCount == Cardinality({i \in DOMAIN faces : faces[i].isBar})
    IN  IF headlightsCount = 0 THEN "Diagonal"
        ELSE IF headlightsCount = 1 THEN "Headlights"
        ELSE IF headlightsCount = 4
        THEN IF solvedBarsCount = 4
             THEN IF Cardinality({faces[i].c1 : i \in DOMAIN faces}) = 4
                  THEN "Solved" ELSE "Unknown"
             ELSE IF solvedBarsCount = 0
             THEN Only({ IF face # None
                         THEN IF isOppositeColor(face[1].c1, face[1].e)
                              THEN "PLL (H)" ELSE "PLL (Z)"
                         ELSE "PLL (Z)" :
                         face \in {Find(SelectSeq(faces,
                                      LAMBDA f : f.c1 # Null /\ f.e # Null))} })
             ELSE IF solvedBarsCount = 1 THEN PLLOneBar(faces, up)
             ELSE "PLL (Z)"
        ELSE "Unknown"

identifyPLL(topPieces, topCenter) ==
    Only({ PLLCaseOf(faces, up) :
           up    \in {ApplyQuaternion(topCenter.initialPosition,
                                      topCenter.quaternion)},
           faces \in {PLLFaces(topPieces, topCenter)} })

---------------------------------------------------------------------------
\* The other version of the PLL classifier (src/unnamed/part_003).  The loop
\* of getStickerColor, isOppositeColor, localNormals and candidates read the
\* same in both files.

\* a sticker exists on the piece: Math.round(p[i]) !== n.vec[i] rejects
isValidNormalPart003(cubie, n) ==
    \A i \in 1..3 :
        ~(n.vec[i] # 0 /\ MathRound(cubie.initialPosition[i], 1) # n.vec[i])

\* let maxDot = 0.8, in tenths
StickerThresholdPart003 == 8

getStickerColorPart003(cubie, direction) ==
    Only({ StickerLoop(cubie, direction, validNormals, 1, StickerThresholdPart003,
                       Null) :
           validNormals \in {SelectSeq(localNormals,
                                       LAMBDA n : isValidNormalPart003(cubie, n))} })

\* the record returned for one side; isHeadlights and isBar by their truth
PLLFaceOfPart003(faceCorners, faceEdge, dir) ==
    Only({ [dir |-> dir, c1 |-> c1, c2 |-> c2, e |-> e,
            isHeadlights |-> (c1 # Null /\ c2 # Null /\ c1 = c2),
            isBar |-> (c1 # Null /\ c2 # Null /\ e # Null /\ c1 = c2 /\ c1 = e)] :
           c1 \in {IF Len(faceCorners) = 2
                    THEN getStickerColorPart003(faceCorners[1], dir) ELSE Null},
           c2 \in {IF Len(faceCorners) = 2
                    THEN getStickerColorPart003(faceCorners[2], dir) ELSE Null},
           e  \in {IF faceEdge # None
                    THEN getStickerColorPart003(faceEdge[1], dir) ELSE Null} })

PLLFacePart003(corners, edges, topCenter, dir) ==
    Only({ PLLFaceOfPart003(faceCorners, faceEdge, dir) :
           faceCorners \in {SelectSeq(corners,
               LAMBDA c : 2 * Dot(VSub(c.position, topCenter.position), dir) > 1)},
           faceEdge \in {Find(SelectSeq(edges,
               LAMBDA e : 2 * Dot(VSub(e.position, topCenter.position), dir) > 1))} })

RECURSIVE MapFacesPart003(_, _, _, _, _)
MapFacesPart003(corners, edges, topCenter, sideDirs, i) ==
    IF i > Len(sideDirs) THEN << >>
    ELSE <<PLLFacePart003(corners, edges, topCenter, sideDirs[i])>>
             \o MapFacesPart003(corners, edges, topCenter, sideDirs, i + 1)

PLLFacesPart003(topPieces, topCenter) ==
    LET up == ApplyQuaternion(topCenter.initialPosition,
                              topCenter.quaternion)
    IN  Only({ MapFacesPart003(corners, edges, topCenter, sideDirs, 1) :
               sideDirs \in {SelectSeq(candidates,
                                       LAMBDA v : ScaledAbsLess(Dot(v, up), NormSq(up), 1, 10))},
               corners  \in {SelectSeq(topPieces, isCorner)},
               edges    \in {SelectSeq(topPieces, isEdge)} })

PLLFrontRightPart003(faces, up, backFace) ==
    LET frontDir == VNeg(backFace.dir)
        rightDir == Cross(up, frontDir)
    IN  Only({ IF /\ frontFace # None
                  /\ rightFace # None
                  /\ frontFace[1].e # Null
                  /\ rightFace[1].c1 # Null
               THEN IF frontFace[1].e = rightFace[1].c1 THEN "PLL (Ua)"
                    ELSE "PLL (Ub)"
               ELSE "PLL (Ua)" :
               frontFace \in {Find(SelectSeq(faces,
                                  LAMBDA f : 10 * Dot(f.dir, frontDir) > 9))},
               rightFace \in {Find(SelectSeq(faces,
                                  LAMBDA f : ScaledGreater(Dot(f.dir, rightDir),
                                                           NormSq(up), 9, 10)))} })

PLLOneBarPart003(faces, up) ==
    Only({ IF backFace = None THEN "PLL (Ua)"
           ELSE PLLFrontRightPart003(faces, up, backFace[1]) :
           backFace \in {Find(SelectSeq(faces, LAMBDA f : f.isBar))} })

\* the classification, given the four sides: four bars are "Solved" at once
PLLCaseOfPart003(faces, up) ==
    LET headlightsCount == Cardinality({i \in DOMAIN faces : faces[i].isHeadlights})
        solvedBarsCount == Cardinality({i \in DOMAIN faces : faces[i].isBar})
    IN  IF headlightsCount = 0 THEN "Diagonal"
        ELSE IF headlightsCount = 1 THEN "Headlights"
        ELSE IF headlightsCount = 4
        THEN IF solvedBarsCount = 4 THEN "Solved"
             ELSE IF solvedBarsCount = 0
             THEN Only({ IF face # None
                         THEN IF isOppositeColor(face[1].c1, face[1].e)
                              THEN "PLL (H)" ELSE "PLL (Z)"
                         ELSE "PLL (Z)" :
                         face \in {Find(SelectSeq(faces,
                                      LAMBDA f : f.c1 # Null /\ f.e # Null))} })
             ELSE IF solvedBarsCount = 1 THEN PLLOneBarPart003(faces, up)
             ELSE "PLL (Z)"
        ELSE "Unknown"

identifyPLLPart003(topPieces, topCenter) ==
    Only({ PLLCaseOfPart003(faces, up) :
           up    \in {ApplyQuaternion(topCenter.initialPosition,
                                      topCenter.quaternion)},
           faces \in {PLLFacesPart003(topPieces, topCenter)} })

---------------------------------------------------------------------------
\* 2-look OLL classifier (utils/ollPatterns.ts)

\* localUp.applyQuaternion(c.quaternion): the piece's top sticker normal,
\* times the length of topCenter.initialPosition
getStickerNormal(c, topCenter) ==
    ApplyQuaternion(topCenter.initialPosition, c.quaternion)

\* currentUp.dot(up) > 0.9, both vectors of the length of localUp
isUpOriented(c, topCenter, up) ==
    10 * Dot(getStickerNormal(c, topCenter), up) > 9 * NormSq(up)

\* HeadlightPairs with the inner loop started at 0: each pair is met twice
HeadlightPairsBothOrders(corners, topCenter) ==
    {pr \in (DOMAIN corners) \X (DOMAIN corners) :
        /\ pr[1] # pr[2]
        /\ ~(100 * DistSq(corners[pr[1]].position, corners[pr[2]].position) > 484)
        /\ 10 * Dot(getStickerNormal(corners[pr[1]], topCenter),
                    getStickerNormal(corners[pr[2]], topCenter))
               > 9 * NormSq(topCenter.initialPosition)}

\* the headlight pairs of the 0-corner case: adjacent corners (dist <= 2.2)
\* whose sticker normals are parallel (dot > 0.9)
HeadlightPairs(corners, topCenter) ==
    {pr \in (DOMAIN corners) \X (DOMAIN corners) :
        /\ pr[1] < pr[2]
        /\ ~(100 * DistSq(corners[pr[1]].position, corners[pr[2]].position) > 484)
        /\ 10 * Dot(getStickerNormal(corners[pr[1]], topCenter),
                    getStickerNormal(corners[pr[2]], topCenter))
               > 9 * NormSq(topCenter.initialPosition)}

Sgn(n) == IF n > 0 THEN 1 ELSE IF n < 0 THEN -1 ELSE 0

\* The quaternions of the pieces are products of rotations accumulated in
\* floating point (premultiply().normalize() at every commit) and the
\* relative positions are normalized in floating point, so two numbers that
\* are equal in exact arithmetic are computed a rounding error apart, in
\* either order.  A residue names the outcome of the rounding: twist is the
\* sign computed for a twist that is exactly zero, tie the corner (by its
\* index in corners) whose dot comes out largest among dots that are exactly
\* equal.
Residues == [twist : {1, -1}, tie : {1, 2, 3, 4}]

\* Where analyzeCube calls the classifier the corners lie in the top layer:
\* no two dots are equal and no twist is zero, so every residue gives the
\* same case (C16 states it of every such call).  There one residue, no
\* matter which, stands for all of them.
AnyResidue == CHOOSE residue \in Residues : TRUE

\* dot > maxDot for dot = d1 / sqrt(l1) and maxDot = d2 / sqrt(l2), a zero
\* length counting as 1 (length() || 1); on dots that are exactly equal
\* the rounding decides: favoured tells whether dot comes out larger
DotNormGreater(d1, l1, d2, l2, favoured) ==
    LET m1 == IF l1 = 0 THEN 1 ELSE l1
        m2 == IF l2 = 0 THEN 1 ELSE l2
        a  == Sgn(d1) * d1 * d1 * m2
        b  == Sgn(d2) * d2 * d2 * m1
    IN  a > b \/ (a = b /\ favoured)

\* corners.forEach of the 1-corner case: the corner whose normalized position
\* relative to the center aligns best with tangentCW; best is None (maxDot =
\* -Infinity) or the index of the neighbor so far
RECURSIVE NeighborLoop(_, _, _, _, _, _, _)
NeighborLoop(corners, orientedC, centerPos, tangentCW, i, best, residue) ==
    IF i > Len(corners) THEN best
    ELSE LET c       == corners[i]
             cPosRel == VSub(c.position, centerPos)
             b       == VSub(corners[best[1]].position, centerPos)
         IN  IF c.id = orientedC.id
             THEN NeighborLoop(corners, orientedC, centerPos, tangentCW, i + 1, best, residue)
             ELSE IF best = None
                     \/ DotNormGreater(Dot(cPosRel, tangentCW), LenSq(cPosRel),
                                       Dot(b, tangentCW), LenSq(b),
                                       residue.tie = i)
             THEN NeighborLoop(corners, orientedC, centerPos, tangentCW, i + 1,
                               Some(i), residue)
             ELSE NeighborLoop(corners, orientedC, centerPos, tangentCW, i + 1, best, residue)

\* the 1-corner case; "Unknown" (the final return) when no neighbor is found
OLLOneCorner(corners, orientedCorners, topCenter, up, residue) ==
    LET centerPos == topCenter.position
        orientedC == orientedCorners[1]
        oPosRel   == VSub(orientedC.position, centerPos)
        tangentCW == Cross(up, oPosRel)
    IN  Only({ IF neighbor = None THEN "Unknown"
               ELSE LET nb       == corners[neighbor[1]]
                        nPosRel  == VSub(nb.position, centerPos)
                        nSticker == getStickerNormal(nb, topCenter)
                        twistVal == Dot(Cross(nPosRel, nSticker), up)
                    IN  IF twistVal > 0 \/ (twistVal = 0 /\ residue.twist > 0)
                        THEN "Sune" ELSE "Anti-Sune" :
               neighbor \in {NeighborLoop(corners, orientedC, centerPos,
                                          tangentCW, 1, None, residue)} })

\* OLLTwoCorners with the two oriented corners compared by their origins
OLLTwoCornersByOrigin(corners, orientedCorners, topCenter) ==
    IF 100 * DistSq(orientedCorners[1].initialPosition,
                    orientedCorners[2].initialPosition) > 484
    THEN "L"
    ELSE Only({ IF Len(unoriented) # 2 THEN "Unknown"
                ELSE IF 10 * Dot(getStickerNormal(unoriented[1], topCenter),
                                 getStickerNormal(unoriented[2], topCenter))
                            > 8 * NormSq(topCenter.initialPosition)
                THEN "U" ELSE "T" :
                unoriented \in {SelectSeq(corners,
                    LAMBDA c : \A k \in DOMAIN orientedCorners :
                                   orientedCorners[k].id # c.id)} })

\* the 2-corner case
OLLTwoCorners(corners, orientedCorners, topCenter) ==
    IF 100 * DistSq(orientedCorners[1].position, orientedCorners[2].position) > 484
    THEN "L"
    ELSE Only({ IF Len(unoriented) # 2 THEN "Unknown"
                ELSE IF 10 * Dot(getStickerNormal(unoriented[1], topCenter),
                                 getStickerNormal(unoriented[2], topCenter))
                            > 8 * NormSq(topCenter.initialPosition)
                THEN "U" ELSE "T" :
                unoriented \in {SelectSeq(corners,
                    LAMBDA c : \A k \in DOMAIN orientedCorners :
                                   orientedCorners[k].id # c.id)} })

\* OLLCaseOf with the two oriented edges compared by their origins
OLLCaseOfEdgesByOrigin(corners, orientedEdges, orientedCorners, topCenter, up, residue) ==
    LET edgeCount     == Len(orientedEdges)
        orientedCount == Len(orientedCorners)
    IN  IF edgeCount < 4
        THEN IF edgeCount = 0 THEN "Dot"
             ELSE IF edgeCount = 2
             THEN IF 100 * DistSq(orientedEdges[1].initialPosition,
                                  orientedEdges[2].initialPosition) < 324
                  THEN "L-Shape" ELSE "Line"
             ELSE "Unknown"
        ELSE IF orientedCount = 0
        THEN Only({ IF headlightPairs >= 2 THEN "H"
                    ELSE IF headlightPairs = 1 THEN "Pi"
                    ELSE "Unknown" :
                    headlightPairs \in
                        {Cardinality(HeadlightPairs(corners, topCenter))} })
        ELSE IF orientedCount = 1
        THEN OLLOneCorner(corners, orientedCorners, topCenter, up, residue)
        ELSE IF orientedCount = 2
        THEN OLLTwoCorners(corners, orientedCorners, topCenter)
        ELSE "Unknown"

\* the classification, given the oriented edges and corners
OLLCaseOf(corners, orientedEdges, orientedCorners, topCenter, up, residue) ==
    LET edgeCount     == Len(orientedEdges)
        orientedCount == Len(orientedCorners)
    IN  IF edgeCount < 4
        THEN IF edgeCount = 0 THEN "Dot"
             ELSE IF edgeCount = 2
             THEN IF 100 * DistSq(orientedEdges[1].position,
                                  orientedEdges[2].position) < 324
                  THEN "L-Shape" ELSE "Line"
             ELSE "Unknown"
        ELSE IF orientedCount = 0
        THEN Only({ IF headlightPairs >= 2 THEN "H"
                    ELSE IF headlightPairs = 1 THEN "Pi"
                    ELSE "Unknown" :
                    headlightPairs \in
                        {Cardinality(HeadlightPairs(corners, topCenter))} })
        ELSE IF orientedCount = 1
        THEN OLLOneCorner(corners, orientedCorners, topCenter, up, residue)
        ELSE IF orientedCount = 2
        THEN OLLTwoCorners(corners, orientedCorners, topCenter)
        ELSE "Unknown"

\* the oriented pieces among arr
OrientedAmong(arr, topCenter, up) ==
    SelectSeq(arr, LAMBDA c : isUpOriented(c, topCenter, up))

\* identify2LookOLL with the oriented corners counted among all the pieces of
\* the top layer
identify2LookOLLAllPieces(topPieces, topCenter, residue) ==
    Only({ Only({ OLLCaseOf(corners, orientedEdges, orientedCorners, topCenter, up,
                            residue) :
                  orientedEdges   \in {OrientedAmong(edges, topCenter, up)},
                  orientedCorners \in {OrientedAmong(topPieces, topCenter, up)} }) :
           up      \in {ApplyQuaternion(topCenter.initialPosition,
                                        topCenter.quaternion)},
           edges   \in {SelectSeq(topPieces, isEdge)},
           corners \in {SelectSeq(topPieces, isCorner)} })

\* identify2LookOLL(topPieces, topCenter), for the given outcome of the rounding
identify2LookOLL(topPieces, topCenter, residue) ==
    Only({ Only({ OLLCaseOf(corners, orientedEdges, orientedCorners, topCenter, up,
                            residue) :
                  orientedEdges   \in {OrientedAmong(edges, topCenter, up)},
                  orientedCorners \in {OrientedAmong(corners, topCenter, up)} }) :
           up      \in {ApplyQuaternion(topCenter.initialPosition,
                                        topCenter.quaternion)},
           edges   \in {SelectSeq(topPieces, isEdge)},
           corners \in {SelectSeq(topPieces, isCorner)} })

---------------------------------------------------------------------------
\* analyzeCube (utils/phaseEngine.ts)

COLORS == [U |-> "#ffffff", D |-> "#ffd500", L |-> "#ff5800", R |-> "#b71234",
           F |-> "#009b48", B |-> "#0046ad", CORE |-> "#101010"]

phaseValue == [Scrambled |-> 0, Cross |-> 1, F2L |-> 2, OLL |-> 3, PLL |-> 4,
               Solved |-> 5]

\* baseAxisIndex with the test turned round: the first coordinate that is zero
baseAxisIndexFirstZero(center) ==
    CHOOSE i \in 1..3 : center.initialPosition[i] = 0
                        /\ \A j \in 1..(i - 1) : center.initialPosition[j] # 0

\* center.initialPosition.findIndex(v => v !== 0), 1-based
baseAxisIndex(center) ==
    CHOOSE i \in 1..3 : center.initialPosition[i] # 0
                        /\ \A j \in 1..(i - 1) : center.initialPosition[j] = 0

\* the edges of the base cross: origin distance to the center below 1.1
crossEdges(edges, center) ==
    SelectSeq(edges,
        LAMBDA e : 100 * DistSq(center.initialPosition, e.initialPosition) < 121)

isCrossSolved(edges, center) ==
    LET ce == crossEdges(edges, center)
    IN  \A i \in DOMAIN ce : isCorrectlyPlaced(ce[i], center)

\* the corners of the base layer
baseCorners(corners, center) ==
    LET b == baseAxisIndex(center)
    IN  SelectSeq(corners,
            LAMBDA c : 10 * Abs(c.initialPosition[b] - center.initialPosition[b]) < 1)

\* the edge paired with a base corner: the corner's origin with the base axis zeroed
pairedEdge(edges, corner, center) ==
    LET edgeInitPos == [corner.initialPosition EXCEPT ![baseAxisIndex(center)] = 0]
    IN  Find(SelectSeq(edges, LAMBDA e : \A i \in 1..3 :
                 10 * Abs(e.initialPosition[i] - edgeInitPos[i]) < 1))

\* the counters after the loop over bc = baseCorners (phaseEngine.ts 87-109)
F2LCountsOf(edges, bc, center) ==
    LET cornerSolved(i) == isCorrectlyPlaced(bc[i], center)
        edgeSolved(i)   ==
            Only({ edge # None /\ isCorrectlyPlaced(edge[1], center) :
                   edge \in {pairedEdge(edges, bc[i], center)} })
    IN  [solvedCorners |-> Cardinality({i \in DOMAIN bc : cornerSolved(i)}),
         solvedEdges   |-> Cardinality({i \in DOMAIN bc : edgeSolved(i)}),
         solvedPairs   |-> Cardinality({i \in DOMAIN bc :
                                           cornerSolved(i) /\ edgeSolved(i)})]

F2LCounts(edges, corners, center) ==
    Only({ F2LCountsOf(edges, bc, center) : bc \in {baseCorners(corners, center)} })

\* the center opposite the base: baseVec.dot(cVec) < -0.9
findTopCenter(centers, center) ==
    Find(SelectSeq(centers,
         LAMBDA c : 10 * Dot(center.initialPosition, c.initialPosition) < -9))

\* the 4 edges and 4 corners whose origin lies in the layer of topCenter
topPiecesOf(edges, corners, topCenter) ==
    LET tVec == topCenter.initialPosition
        axis == IF tVec[1] # 0 THEN 1 ELSE IF tVec[2] # 0 THEN 2 ELSE 3
    IN  SelectSeq(edges \o corners,
            LAMBDA p : 10 * Abs(p.initialPosition[axis] - tVec[axis]) < 1)

\* TopLayerStage with the PLL case kept when the phase becomes Solved
TopLayerStageKeepsCase(topPieces, topCenter, residue) ==
    IF \A i \in DOMAIN topPieces : isOrientedForOLL(topPieces[i], topCenter)
    THEN Only({ [phase |-> IF pllCaseResult = "Solved" THEN "Solved" ELSE "PLL",
                 ollCase |-> Undefined, pllCase |-> pllCaseResult] :
                pllCaseResult \in {identifyPLL(topPieces, topCenter)} })
    ELSE [phase |-> "OLL", ollCase |-> identify2LookOLL(topPieces, topCenter, residue),
          pllCase |-> Undefined]

\* TopLayerStage with isOLLSolved read from the edges alone
TopLayerStageEdgesOnly(topPieces, topCenter, residue) ==
    IF \A i \in DOMAIN topPieces :
           isEdge(topPieces[i]) => isOrientedForOLL(topPieces[i], topCenter)
    THEN Only({ IF pllCaseResult = "Solved"
                THEN [phase |-> "Solved", ollCase |-> Undefined,
                      pllCase |-> Undefined]
                ELSE [phase |-> "PLL", ollCase |-> Undefined,
                      pllCase |-> pllCaseResult] :
                pllCaseResult \in {identifyPLL(topPieces, topCenter)} })
    ELSE [phase |-> "OLL", ollCase |-> identify2LookOLL(topPieces, topCenter, residue),
          pllCase |-> Undefined]

\* the OLL / PLL stage, given the pieces of the top layer (phaseEngine.ts 129-144)
TopLayerStage(topPieces, topCenter, residue) ==
    IF \A i \in DOMAIN topPieces : isOrientedForOLL(topPieces[i], topCenter)
    THEN Only({ IF pllCaseResult = "Solved"
                THEN [phase |-> "Solved", ollCase |-> Undefined,
                      pllCase |-> Undefined]
                ELSE [phase |-> "PLL", ollCase |-> Undefined,
                      pllCase |-> pllCaseResult] :
                pllCaseResult \in {identifyPLL(topPieces, topCenter)} })
    ELSE [phase |-> "OLL", ollCase |-> identify2LookOLL(topPieces, topCenter, residue),
          pllCase |-> Undefined]

\* the OLL / PLL stage of a candidate with solvedPairs = 4 (phaseEngine.ts 111-145)
LastLayerStage(centers, edges, corners, center, residue) ==
    Only({ IF topCenter = None
           THEN [phase |-> "OLL", ollCase |-> Undefined, pllCase |-> Undefined]
           ELSE Only({ TopLayerStage(topPieces, topCenter[1], residue) :
                       topPieces \in {topPiecesOf(edges, corners, topCenter[1])} }) :
           topCenter \in {findTopCenter(centers, center)} })

\* F2LStage with the "Second Layer" row counting the corners instead of the
\* edges
F2LStageCountsCorners(n) ==
    IF n.solvedPairs >= 2
    THEN [f2lTag |-> Undefined, missingCount |-> Some(4 - n.solvedPairs)]
    ELSE IF n.solvedCorners = 4
    THEN [f2lTag |-> "Second Layer", missingCount |-> Some(4 - n.solvedCorners)]
    ELSE [f2lTag |-> "First Layer", missingCount |-> Some(4 - n.solvedCorners)]

\* the F2L decision table (phaseEngine.ts 146-157)
F2LStage(n) ==
    IF n.solvedPairs >= 2
    THEN [f2lTag |-> Undefined, missingCount |-> Some(4 - n.solvedPairs)]
    ELSE IF n.solvedCorners = 4
    THEN [f2lTag |-> "Second Layer", missingCount |-> Some(4 - n.solvedEdges)]
    ELSE [f2lTag |-> "First Layer", missingCount |-> Some(4 - n.solvedCorners)]

\* the result of a candidate whose cross is solved, given its counters
StageOf(centers, edges, corners, center, n, residue) ==
    IF n.solvedPairs = 4
    THEN Only({ [cross |-> TRUE, phase |-> l.phase, f2lTag |-> Undefined,
                 missingCount |-> None, ollCase |-> l.ollCase,
                 pllCase |-> l.pllCase] :
                l \in {LastLayerStage(centers, edges, corners, center, residue)} })
    ELSE Only({ [cross |-> TRUE, phase |-> "F2L", f2lTag |-> f.f2lTag,
                 missingCount |-> f.missingCount, ollCase |-> Undefined,
                 pllCase |-> Undefined] :
                f \in {F2LStage(n)} })

\* one iteration of the loop over centers, up to the ranking: the candidate's
\* result, cross = FALSE standing for the "continue" of a rejected candidate
CandidateResult(centers, edges, corners, center, residue) ==
    IF ~isCrossSolved(edges, center)
    THEN [cross |-> FALSE, phase |-> "Scrambled", f2lTag |-> Undefined,
          missingCount |-> None, ollCase |-> Undefined, pllCase |-> Undefined]
    ELSE Only({ StageOf(centers, edges, corners, center, n, residue) :
                n \in {F2LCounts(edges, corners, center)} })

\* (missingCount || 0)
OrZero(m) == IF m = None THEN 0 ELSE m[1]

\* RankCandidate without the F2L tie-break: the first candidate of the best
\* phase is kept
RankCandidateFirstWins(best, center, r) ==
    IF phaseValue[r.phase] > phaseValue[best.bestPhase]
    THEN [bestPhase |-> r.phase, bestBase |-> Some(center),
          bestF2LTag |-> r.f2lTag, bestMissingCount |-> r.missingCount,
          bestOLLCase |-> r.ollCase, bestPLLCase |-> r.pllCase]
    ELSE best

\* RankCandidate that takes over from a better candidate only the fields the
\* candidate has, and keeps the others from the best so far
RankCandidateKeepsFields(best, center, r) ==
    IF phaseValue[r.phase] > phaseValue[best.bestPhase]
    THEN [bestPhase |-> r.phase, bestBase |-> Some(center),
          bestF2LTag |-> IF r.f2lTag = Undefined THEN best.bestF2LTag
                         ELSE r.f2lTag,
          bestMissingCount |-> IF r.missingCount = None THEN best.bestMissingCount
                               ELSE r.missingCount,
          bestOLLCase |-> IF r.ollCase = Undefined THEN best.bestOLLCase
                          ELSE r.ollCase,
          bestPLLCase |-> IF r.pllCase = Undefined THEN best.bestPLLCase
                          ELSE r.pllCase]
    ELSE IF /\ phaseValue[r.phase] = phaseValue[best.bestPhase]
            /\ r.phase = "F2L"
            /\ OrZero(r.missingCount) < OrZero(best.bestMissingCount)
    THEN [best EXCEPT !.bestBase = Some(center), !.bestF2LTag = r.f2lTag,
                      !.bestMissingCount = r.missingCount]
    ELSE best

\* the ranking at the end of one iteration (phaseEngine.ts 159-176)
RankCandidate(best, center, r) ==
    IF phaseValue[r.phase] > phaseValue[best.bestPhase]
    THEN [bestPhase |-> r.phase, bestBase |-> Some(center),
          bestF2LTag |-> r.f2lTag, bestMissingCount |-> r.missingCount,
          bestOLLCase |-> r.ollCase, bestPLLCase |-> r.pllCase]
    ELSE IF /\ phaseValue[r.phase] = phaseValue[best.bestPhase]
            /\ r.phase = "F2L"
            /\ OrZero(r.missingCount) < OrZero(best.bestMissingCount)
    THEN [best EXCEPT !.bestBase = Some(center), !.bestF2LTag = r.f2lTag,
                      !.bestMissingCount = r.missingCount]
    ELSE best

\* one iteration of the loop over centers: the best values after center i
CenterStep(centers, edges, corners, i, best, residue) ==
    Only({ IF r.cross THEN RankCandidate(best, centers[i], r) ELSE best :
           r \in {CandidateResult(centers, edges, corners, centers[i], residue)} })

\* for (const center of centers) { ... }
RECURSIVE CenterLoop(_, _, _, _, _, _)
CenterLoop(centers, edges, corners, i, best, residue) ==
    IF i > Len(centers) THEN best
    ELSE Only({ CenterLoop(centers, edges, corners, i + 1, next, residue) :
                next \in {CenterStep(centers, edges, corners, i, best, residue)} })

\* the color of the base face (phaseEngine.ts 179-188)
colorHexOf(bestBase) ==
    IF bestBase = None THEN Null
    ELSE LET ip == bestBase[1].initialPosition
         IN  IF ip[2] = 1 THEN COLORS.U
             ELSE IF ip[2] = -1 THEN COLORS.D
             ELSE IF ip[1] = 1 THEN COLORS.R
             ELSE IF ip[1] = -1 THEN COLORS.L
             ELSE IF ip[3] = 1 THEN COLORS.F
             ELSE IF ip[3] = -1 THEN COLORS.B
             ELSE Null

\* the return of analyzeCube without the fallback: the best phase is returned
\* as it stands
AnalysisOfNoFallback(best) ==
    [phase |-> best.bestPhase, baseColor |-> colorHexOf(best.bestBase),
     isSolved |-> (best.bestPhase = "Solved"),
     f2lTag |-> best.bestF2LTag, missingCount |-> best.bestMissingCount,
     ollCase |-> best.bestOLLCase, pllCase |-> best.bestPLLCase]

\* the AnalysisResult returned for the best values (phaseEngine.ts 179-202); a
\* property the source leaves out reads as undefined
AnalysisOf(best) ==
    IF best.bestPhase = "Scrambled"
    THEN [phase |-> "Cross", baseColor |-> Null, isSolved |-> FALSE,
          f2lTag |-> Undefined, missingCount |-> None,
          ollCase |-> Undefined, pllCase |-> Undefined]
    ELSE [phase |-> best.bestPhase, baseColor |-> colorHexOf(best.bestBase),
          isSolved |-> (best.bestPhase = "Solved"),
          f2lTag |-> best.bestF2LTag, missingCount |-> best.bestMissingCount,
          ollCase |-> best.bestOLLCase, pllCase |-> best.bestPLLCase]

\* the best values before the loop (phaseEngine.ts 55-60)
NoBest ==
    [bestPhase |-> "Scrambled", bestBase |-> None,
     bestF2LTag |-> Undefined, bestMissingCount |-> None,
     bestOLLCase |-> Undefined, bestPLLCase |-> Undefined]

\* analyzeCube(cubies), for the given outcome of the rounding
analyzeCube(cs, residue) ==
    Only({ AnalysisOf(best) :
           best \in {Only({ CenterLoop(centers, edges, corners, 1, NoBest, residue) :
                            centers \in {SelectSeq(cs, isCenter)},
                            edges   \in {SelectSeq(cs, isEdge)},
                            corners \in {SelectSeq(cs, isCorner)} })} })

---------------------------------------------------------------------------
\* The move sequences explored.  Face turns are named as getNotationMove
\* resolves them for a camera whose right, up and back are +x, +y and +z:
\* an upper-case letter turns the layer at slice s by -s, a quote negates the
\* direction and a 2 doubles it.

Turn(axis, s, direction) == [axis |-> axis, slice |-> <<s>>, direction |-> direction]

mR  == Turn("x", 1, -1)
mRp == Turn("x", 1, 1)
mU  == Turn("y", 1, -1)
mUp == Turn("y", 1, 1)
mU2 == Turn("y", 1, -2)
mL2 == Turn("x", -1, 2)
mR2 == Turn("x", 1, -2)
mD2 == Turn("y", -1, 2)
mD  == Turn("y", -1, 1)
mDp == Turn("y", -1, -1)
mF  == Turn("z", 1, -1)
mFp == Turn("z", 1, 1)

\* a lower-case letter turns the layer and the middle layer next to it
Wide(axis, s, direction) == [axis |-> axis, slice |-> <<s, 0>>, direction |-> direction]

mr  == Wide("x", 1, -1)
mrp == Wide("x", 1, 1)
mf  == Wide("z", 1, -1)
mfp == Wide("z", 1, 1)

\* M follows L: the middle layer of x, turned as L is
mM  == Turn("x", 0, 1)
mMp == Turn("x", 0, -1)
mM2 == Turn("x", 0, 2)

Scripts ==
    { << >>,
      <<mU, mL2, mUp, mL2>>,                  \* U L2 U' L2
      <<mR, mU2, mRp, mU2, mRp>>,             \* R U2 R' U2 R'
      <<mU2, mL2, mR2, mD2>>,                 \* U2 L2 R2 D2
      <<mR, mU, mRp, mUp>>,                   \* R U R' U'
      <<mR, mU2, mRp, mUp, mR, mUp, mRp>>,    \* R U2 R' U' R U' R'
      <<mR2, mL2, mU2, mR2, mL2, mU2>> }      \* R2 L2 U2 R2 L2 U2

\* The last-layer cases: each sequence is the inverse of an algorithm of
\* OLL_ALGORITHMS (ollPatterns.ts) or PLL_ALGORITHMS (pllPatterns.ts), and
\* leaves the case that the algorithm solves.
CaseScripts ==
    { <<mf, mU, mR, mUp, mRp, mfp, mF, mU, mR, mUp, mRp, mFp>>,   \* Dot
      <<mF, mU, mR, mUp, mRp, mFp>>,                              \* L-Shape
      <<mf, mU, mR, mUp, mRp, mfp>>,                              \* Line
      <<mR, mU, mRp, mU, mR, mU2, mRp>>,                          \* Anti-Sune
      <<mR, mU2, mRp, mUp, mR, mU, mRp, mUp, mR, mUp, mRp>>,      \* H
      <<mRp, mU2, mR2, mU, mR2, mU, mR2, mU2, mRp>>,              \* Pi
      <<mR, mU2, mR, mD, mRp, mU2, mR, mDp, mR2>>,                \* U
      <<mF, mRp, mFp, mr, mU, mR, mUp, mrp>>,                     \* T
      <<mr, mU, mRp, mUp, mrp, mF, mR, mFp>>,                     \* L
      <<mF, mRp, mFp, mR, mU, mR, mUp, mRp, mF, mR, mUp, mRp, mU, mR, mU,
        mRp, mFp>>,                                               \* Diagonal
      <<mF, mR, mUp, mRp, mU, mR, mU, mR2, mFp, mR, mU, mR, mUp, mRp>>,
                                                                  \* Headlights
      <<mM2, mUp, mM2, mU2, mM2, mUp, mM2>>,                      \* PLL (H)
      <<mR2, mU, mR, mU, mRp, mUp, mRp, mUp, mRp, mU, mRp>>,      \* PLL (Ua)
      <<mR, mUp, mR, mU, mR, mU, mR, mUp, mRp, mUp, mR2>>,        \* PLL (Ub)
      <<mM2, mU2, mM, mUp, mM2, mUp, mM2, mUp, mM>> }             \* PLL (Z)

\* the moves tried after a last-layer case: a turn of the upper layer, or a
\* turn of the whole cube
Adjusts ==
    {mU, mUp, mU2}
        \cup {[axis |-> a, slice |-> <<-1, 0, 1>>, direction |-> 1] : a \in Axes}
        \cup {[axis |-> "y", slice |-> <<-1, 0, 1>>, direction |-> -1]}

IsPrefix(p, w) == Len(p) <= Len(w) /\ SubSeq(w, 1, Len(p)) = p

\* t: free moves, the last one repeated if it is a quarter turn
IsFreeTail(t) ==
    \E k \in 1..Len(t) :
        /\ k <= MaxMoves
        /\ Len(t) - k + 1 <= MaxRepeats
        /\ \A i \in (k + 1)..Len(t) : t[i] = t[k] /\ Abs(t[k].direction) = 1

Explored(w) ==
    \/ \E s \in Scripts :
           \/ IsPrefix(w, s)
           \/ /\ IsPrefix(s, w)
              /\ IsFreeTail(SubSeq(w, Len(s) + 1, Len(w)))
    \/ \E s \in CaseScripts :
           \/ IsPrefix(w, s)
           \/ /\ IsPrefix(s, w)
              /\ Len(w) = Len(s) + 1
              /\ w[Len(w)] \in Adjusts

\* cs after the moves of w, committed in order
RECURSIVE ApplyMoves(_, _)
ApplyMoves(cs, w) ==
    IF Len(w) = 0 THEN cs ELSE ApplyMoves(ApplyMove(cs, Head(w)), Tail(w))

---------------------------------------------------------------------------
\* Notation (utils/cubeLogic.ts, getNotationMove)

\* A notation token is held as the sequence of its characters: <<"R">>,
\* <<"R", "'">>, <<"r", "2">>.  A camera is held by the first three columns of
\* its matrixWorld (its right, up and back directions) as integer vectors:
\* the source normalises each, and only the order of the dot products with
\* the six axis directions is read.

\* the letters of the notation buttons of App
FaceChars == {"U", "D", "F", "B", "L", "R"}
WideChars == {"u", "d", "f", "b", "l", "r"}
SliceChars == {"M", "E", "S"}
Notations ==
    UNION {{<<b>>, <<b, "'">>, <<b, "2">>} : b \in FaceChars \cup WideChars \cup SliceChars}

\* notation.endsWith(ch)
EndsWith(notation, ch) == Len(notation) >= 1 /\ notation[Len(notation)] = ch

\* baseChar.toUpperCase()
ToUpperCase(ch) ==
    CASE ch = "u" -> "U" [] ch = "d" -> "D" [] ch = "f" -> "F"
      [] ch = "b" -> "B" [] ch = "l" -> "L" [] ch = "r" -> "R"
      [] OTHER -> ch

\* M follows L, E follows D, S follows F
targetFaceOf(baseChar) ==
    IF baseChar = "M" THEN "L"
    ELSE IF baseChar = "E" THEN "D"
    ELSE IF baseChar = "S" THEN "F"
    ELSE ToUpperCase(baseChar)

\* the switch on targetFace
targetOf(targetFace, cam) ==
    CASE targetFace = "F" -> cam.back
      [] targetFace = "B" -> VNeg(cam.back)
      [] targetFace = "R" -> cam.right
      [] targetFace = "L" -> VNeg(cam.right)
      [] targetFace = "U" -> cam.up
      [] targetFace = "D" -> VNeg(cam.up)
      [] OTHER -> cam.back

globalAxes == <<[axis |-> "x", slice |-> 1, vec |-> <<1, 0, 0>>],
                [axis |-> "x", slice |-> -1, vec |-> <<-1, 0, 0>>],
                [axis |-> "y", slice |-> 1, vec |-> <<0, 1, 0>>],
                [axis |-> "y", slice |-> -1, vec |-> <<0, -1, 0>>],
                [axis |-> "z", slice |-> 1, vec |-> <<0, 0, 1>>],
                [axis |-> "z", slice |-> -1, vec |-> <<0, 0, -1>>]>>

\* globalAxes.forEach(...): maxDot starts at -Infinity, so the first entry
\* is always taken; a later one only when its dot product is greater
RECURSIVE BestMatchLoop(_, _, _, _)
BestMatchLoop(target, i, maxDot, bestMatch) ==
    IF i > Len(globalAxes) THEN bestMatch
    ELSE LET g   == globalAxes[i]
             dot == Dot(g.vec, target)
         IN  IF i = 1 \/ dot > maxDot
             THEN BestMatchLoop(target, i + 1, dot, g)
             ELSE BestMatchLoop(target, i + 1, maxDot, bestMatch)

\* the move of a notation token with the directions of a primed and a plain
\* token exchanged
getNotationMovePrimeIsPlain(notation, cam) ==
    LET baseChar  == notation[1]
        dirMult   == IF EndsWith(notation, "'") THEN 1
                     ELSE IF EndsWith(notation, "2") THEN 2 ELSE -1
        bestMatch == BestMatchLoop(targetOf(targetFaceOf(baseChar), cam), 1, 0,
                                   globalAxes[1])
        baseDir   == -bestMatch.slice
    IN  [axis      |-> bestMatch.axis,
         slice     |-> IF baseChar \in {"M", "E", "S"} THEN <<0>>
                       ELSE IF baseChar # ToUpperCase(baseChar)
                       THEN <<bestMatch.slice, 0>>
                       ELSE <<bestMatch.slice>>,
         direction |-> baseDir * dirMult]

getNotationMove(notation, cam) ==
    LET isPrime   == EndsWith(notation, "'")
        isDouble  == EndsWith(notation, "2")
        baseChar  == notation[1]
        baseUpper == ToUpperCase(baseChar)
        dirMult   == IF isPrime THEN -1 ELSE IF isDouble THEN 2 ELSE 1
        bestMatch == BestMatchLoop(targetOf(targetFaceOf(baseChar), cam), 1, 0,
                                   globalAxes[1])
        baseDir   == -bestMatch.slice
    IN  [axis      |-> bestMatch.axis,
         slice     |-> IF baseChar \in {"M", "E", "S"} THEN <<0>>
                       ELSE IF baseChar # baseUpper
                       THEN <<bestMatch.slice, 0>>
                       ELSE <<bestMatch.slice>>,
         direction |-> baseDir * dirMult]

\* The camera of the Canvas (position [4, 4, 6], looking at the origin), the
\* cameras that look along an axis with an axis upwards, and cameras whose
\* directions lie half way between two axes.
DefaultCamera == [right |-> <<3, 0, -2>>, up |-> <<-4, 13, -6>>, back |-> <<2, 2, 3>>]

UnitVectors == {<<1, 0, 0>>, <<-1, 0, 0>>, <<0, 1, 0>>, <<0, -1, 0>>,
                <<0, 0, 1>>, <<0, 0, -1>>}

AlignedCameras ==
    {[right |-> Cross(u, b), up |-> u, back |-> b] :
        <<u, b>> \in {p \in UnitVectors \X UnitVectors : Dot(p[1], p[2]) = 0}}

TiltedCameras ==
    {[right |-> <<1, 0, -1>>, up |-> <<0, 1, 0>>, back |-> <<1, 0, 1>>],
     [right |-> <<1, 0, 0>>, up |-> <<0, 1, -1>>, back |-> <<0, 1, 1>>],
     [right |-> <<-1, 1, 0>>, up |-> <<-1, -1, 0>>, back |-> <<0, 0, 1>>]}

Cameras == {DefaultCamera} \cup AlignedCameras \cup TiltedCameras

---------------------------------------------------------------------------
\* The running program.  App and Scene render in the root of react-dom; the
\* Canvas renders NotationController and CubeModel (useCubeAnimation,
\* useCubeSwipe) in a root of its own.  A state setter queues an update that
\* the next render of its root takes up.  A handler, an effect and the
\* useFrame callback read the state and the props of the render that made
\* them, and the refs (cubiesRef, moveCountRef, animRef) as they are.  The
\* variables isScrambling, scrambleCount, resetTrigger, pendingNotation,
\* moveCmd, cubies, isAnimating and analysis hold the state with every queued
\* update made; dom and hook hold what the two roots rendered last.  A render
\* of a root takes up every update queued for it.  The order in which the two
\* roots render, frames come and buttons are clicked is open; a render of
\* CubeModel is taken together with the effects it runs, and a click
\* together with the render of App that follows it.

\* useState<AnalysisResult>({ phase: 'Cross', baseColor: null, isSolved: false })
InitialAnalysis ==
    [phase |-> "Cross", baseColor |-> Null, isSolved |-> FALSE,
     f2lTag |-> Undefined, missingCount |-> None,
     ollCase |-> Undefined, pllCase |-> Undefined]

\* the inputs tried in the exploration of the whole application: a swipe,
\* two notation buttons, one of the moves the scramble loop draws, and the
\* camera where the Canvas puts it or turned to look from behind
AppSwipes == {Turn("z", 1, 1)}
AppNotations == {<<"R">>, <<"u", "'">>}
AppDraws == {Turn("y", 1, 1)}
AppCameras ==
    {DefaultCamera,
     [right |-> <<-1, 0, 0>>, up |-> <<0, 1, 0>>, back |-> <<0, 0, -1>>]}

\* The results analyzeCube(cs) may give.  The outcome of the rounding is
\* open; a residue is read only in the branch that names the case Sune or
\* Anti-Sune (and the candidate chosen does not depend on the case), so
\* every residue is tried where one of them gives such a case, and one
\* residue gives the result everywhere else.
AnalysesOf(cs) ==
    Only({ IF result.ollCase \in {"Sune", "Anti-Sune"}
           THEN {analyzeCube(cs, residue) : residue \in Residues}
           ELSE {result} : result \in {analyzeCube(cs, AnyResidue)} })

\* the cubes a move makes of cs when it is made up to n times over
RECURSIVE Orbit(_, _, _)
Orbit(cs, move, n) ==
    IF n = 0 THEN {cs}
    ELSE {cs} \cup Only({ Orbit(next, move, n - 1) :
                          next \in {ApplyMove(cs, move)} })

\* analyzeCube is a pure function: its results on the cubes one input of the
\* whole application leads to (a swipe, a notation move under either
\* camera, the moves of a scramble) are computed once and kept
Analysed ==
    {<<cs, AnalysesOf(cs)>> :
        cs \in UNION {Orbit(getInitialState, move, IF move \in AppDraws THEN 8 ELSE 1) :
                         move \in AppSwipes \cup AppDraws
                             \cup {getNotationMove(note, cam) :
                                      note \in AppNotations, cam \in AppCameras}}}

Analyses(cs) ==
    IF \E p \in Analysed : p[1] = cs
    THEN (CHOOSE p \in Analysed : p[1] = cs)[2]
    ELSE AnalysesOf(cs)

\* performAnalysis: the values analysis may take next
performAnalysis(ref, old) == IF Len(ref) = 0 THEN {old} ELSE Analyses(ref)

\* setScrambleCount(20)
ScrambleLength == 20

\* the moves the scramble loop draws from: one slice, a quarter turn either
\* way or a half turn
RandomMoves == [axis : Axes, slice : {<<-1>>, <<0>>, <<1>>}, direction : {1, -1, 2}]

\* the moves a swipe ends in: one slice, a quarter turn
SwipeMoves == [axis : Axes, slice : {<<-1>>, <<0>>, <<1>>}, direction : {1, -1}]

\* history: the snapshot handed to analyzeCube by performAnalysis, called by
\* who: the timer ("timer") or a handler or an effect ("call")
Classify(snapshot, who) ==
    IF Len(snapshot) = 0 THEN classified
    ELSE Some([snapshot |-> snapshot, by |-> who])

\* history: a move made as a whole, every piece of its slices turned and no
\* other piece touched
TurnOf(cs, move) ==
    [i \in DOMAIN cs |->
        IF \E k \in DOMAIN move.slice :
               move.slice[k] = cs[i].position[AxisIndex(move.axis)]
        THEN RotateCubie(cs[i], move)
        ELSE cs[i]]

\* what a render of App and Scene holds: the state of App, and the
\* activeMove of Scene with the object it is
Rendered(scr, cnt, trg, note, cmd, obj) ==
    [isScrambling |-> scr, scrambleCount |-> cnt, resetTrigger |-> trg,
     pendingNotation |-> note, moveCmd |-> cmd, cmdObject |-> obj]

\* what App and Scene would render now
Latest ==
    Rendered(isScrambling, scrambleCount, resetTrigger, pendingNotation,
             moveCmd, cmdObject)

\* what a render of NotationController and CubeModel holds: the props the
\* Canvas was given by the last render of Scene, and the state of the hook
RenderedCube(props, cs, anim) ==
    [isScrambling |-> props.isScrambling, scrambleCount |-> props.scrambleCount,
     resetTrigger |-> props.resetTrigger,
     pendingNotation |-> props.pendingNotation,
     moveCmd |-> props.moveCmd, cmdObject |-> props.cmdObject,
     cubies |-> cs, isAnimating |-> anim]

\* The effects a render of NotationController and CubeModel leaves to run:
\* at the first render all of them, later those with a dependency that
\* differs from the render before ([notation, onMoveDetermined, camera],
\* [resetTrigger], [moveCmd, isScrambling, triggerMove], [isScrambling,
\* isAnimating, triggerMove]; the callbacks and the camera object never
\* change).  An effect whose test of the values rendered fails returns at
\* once whenever it runs (if (!notation) return, if (moveCmd &&
\* !isScrambling), if (isScrambling && ...)) and is left out.
EffectsOf(new, old, first) ==
    {e \in {"notation", "reset", "moveCmd", "scramble"} :
        \/ /\ e = "notation"
           /\ first \/ new.pendingNotation # old.pendingNotation
           /\ new.pendingNotation # None
        \/ /\ e = "reset"
           /\ first \/ new.resetTrigger # old.resetTrigger
        \/ /\ e = "moveCmd"
           /\ \/ first
              \/ new.moveCmd # old.moveCmd
              \/ new.cmdObject # old.cmdObject
              \/ new.isScrambling # old.isScrambling
           /\ new.moveCmd # None
           /\ ~new.isScrambling
        \/ /\ e = "scramble"
           /\ \/ first
              \/ new.isScrambling # old.isScrambling
              \/ new.isAnimating # old.isAnimating
           /\ new.isScrambling}

\* Before the Canvas has rendered its children: App and Scene are rendered
\* and the buttons are live, the hook's state is what useState will give it,
\* cubiesRef is empty and nothing has been analysed.
Init ==
    /\ cubies = getInitialState
    /\ isAnimating = FALSE
    /\ activeMove = None
    /\ turning = FALSE
    /\ cubiesRef = << >>
    /\ analysis = InitialAnalysis
    /\ moveCount = 0
    /\ played = << >>
    /\ rv = None
    /\ isScrambling = FALSE
    /\ scrambleCount = 0
    /\ resetTrigger = 0
    /\ pendingNotation = None
    /\ moveCmd = None
    /\ cmdObject = 0
    /\ camera = DefaultCamera
    /\ timers = 0
    /\ mounted = FALSE
    /\ dom = Rendered(FALSE, 0, 0, None, None, 0)
    /\ hook = RenderedCube(dom, getInitialState, FALSE)
    /\ effects = {}
    /\ origin = Null
    /\ classified = None
    /\ replay = getInitialState
    /\ scrambleCommits = 0
    /\ scrambles = 0
    /\ requests = 0
    /\ lag = 0

\* a render of App and Scene after updates queued by a frame, an effect or
\* a timer; the Canvas is given the new props
RenderDom ==
    /\ dom # Latest
    /\ dom' = Latest
    /\ lag' = 0
    /\ UNCHANGED <<cubies, isAnimating, activeMove, turning, cubiesRef, analysis,
                   moveCount, played, rv, mounted, hook, effects>>
    /\ UNCHANGED appVars
    /\ UNCHANGED <<origin, classified, replay, scrambleCommits, scrambles,
                   requests>>

\* the animation state of the hook: animRef.current.activeMove, the
\* isAnimating queued, and the history kept with them
Anim ==
    [activeMove |-> activeMove, isAnimating |-> isAnimating,
     turning |-> turning, origin |-> origin]

\* the end of a commit: currentAngle has reached targetAngle, then
\* setIsAnimating(false) and animRef.current.activeMove = null
AtRest ==
    [activeMove |-> None, isAnimating |-> FALSE, turning |-> FALSE,
     origin |-> Null]

\* the reset effect: setIsAnimating(false) and animRef.current.activeMove =
\* null; currentAngle stays where the last frame put it
Dropped ==
    [activeMove |-> None, isAnimating |-> FALSE, turning |-> turning,
     origin |-> Null]

SetAnim(anim) ==
    /\ activeMove' = anim.activeMove
    /\ isAnimating' = anim.isAnimating
    /\ turning' = anim.turning
    /\ origin' = anim.origin

\* triggerMove(move) of the hook, called by who when the animation state is
\* anim: it returns at once while a move is in flight
triggerMove(anim, move, who) ==
    IF anim.activeMove # None
    THEN anim
    ELSE [activeMove |-> Some(move), isAnimating |-> TRUE, turning |-> FALSE,
          origin |-> who]

\* handleCubeChange(cubies) of App as the render r of CubeModel holds it,
\* called by who: the test reads the isScrambling of that render
handleCubeChange(r, newCubies, who) ==
    /\ cubiesRef' = newCubies
    /\ IF ~r.isScrambling
       THEN /\ analysis' \in performAnalysis(newCubies, analysis)
            /\ classified' = Classify(newCubies, who)
       ELSE UNCHANGED <<analysis, classified>>

\* moveCountRef.current after handleCubeChange, which adds 1 to it when the
\* isScrambling it holds is not set
CountChange(r, count) == IF ~r.isScrambling THEN count + 1 ELSE count

\* moveCountRef.current after handleScrambleMoveComplete, which sets it to 0
\* when the scramble ends
CountScrambleMove(r, count) == IF r.scrambleCount > 1 THEN count ELSE 0

\* handleMoveDetermined(move) of Scene: the updater compares the slice
\* arrays by reference, so the move is stored, as a new object, every time
handleMoveDetermined(move) ==
    /\ moveCmd' = Some(move)
    /\ cmdObject' = 1 - cmdObject

\* The effects fx of the render r, in the order of the components and of
\* the hook: the effect of NotationController (getNotationMove with the
\* notation rendered, onMoveDetermined), the reset effect (setCubies,
\* setIsAnimating(false), activeMove = null, onCubeChange(initial)), the
\* moveCmd effect (triggerMove(moveCmd) if moveCmd && !isScrambling) and the
\* scramble loop effect (triggerMove(randomMove) if isScrambling and no move
\* is in flight).
RunEffects(r, fx) ==
    /\ IF "notation" \in fx /\ r.pendingNotation # None
       THEN handleMoveDetermined(getNotationMove(r.pendingNotation[1], camera))
       ELSE UNCHANGED <<moveCmd, cmdObject>>
    /\ IF "reset" \in fx
       THEN /\ cubies' = getInitialState
            /\ handleCubeChange(r, getInitialState, "call")
            /\ moveCount' = CountChange(r, moveCount)
            /\ replay' = getInitialState
       ELSE UNCHANGED <<cubies, cubiesRef, moveCount, analysis, classified,
                        replay>>
    /\ \E randomMove \in AppDraws :
           LET afterReset == IF "reset" \in fx THEN Dropped ELSE Anim
               afterCmd   == IF "moveCmd" \in fx /\ r.moveCmd # None
                                 /\ ~r.isScrambling
                             THEN triggerMove(afterReset, r.moveCmd[1], "notation")
                             ELSE afterReset
           IN  SetAnim(IF "scramble" \in fx /\ r.isScrambling
                           /\ afterCmd.activeMove = None
                       THEN triggerMove(afterCmd, randomMove, "scramble")
                       ELSE afterCmd)

\* The first render of NotationController and CubeModel, with the props the
\* last render of Scene gave the Canvas, as it is committed: the pointer
\* handlers and the frame callback of the render are in place, its effects
\* wait.
Mount ==
    /\ ~mounted
    /\ mounted' = TRUE
    /\ hook' = RenderedCube(dom, cubies, isAnimating)
    /\ effects' = EffectsOf(hook', hook, TRUE)
    /\ UNCHANGED <<cubies, isAnimating, activeMove, turning, cubiesRef, analysis,
                   moveCount, played, rv, dom>>
    /\ UNCHANGED appVars
    /\ UNCHANGED histVars

\* A render of NotationController and CubeModel after an update of the
\* hook's state or new props, as it is committed.  The effects of the render
\* before have run: React runs the effects that wait before it renders the
\* root again.
RenderCube ==
    /\ mounted
    /\ effects = {}
    /\ hook # RenderedCube(dom, cubies, isAnimating)
    /\ hook' = RenderedCube(dom, cubies, isAnimating)
    /\ effects' = EffectsOf(hook', hook, FALSE)
    /\ UNCHANGED <<cubies, isAnimating, activeMove, turning, cubiesRef, analysis,
                   moveCount, played, rv, mounted, dom>>
    /\ UNCHANGED appVars
    /\ UNCHANGED histVars

\* the effects of the last render of NotationController and CubeModel run,
\* in a task of their own after the commit
Effects ==
    /\ mounted
    /\ effects # {}
    /\ RunEffects(hook, effects)
    /\ effects' = {}
    /\ UNCHANGED <<played, rv, mounted, dom, hook>>
    /\ UNCHANGED <<isScrambling, scrambleCount, resetTrigger, pendingNotation,
                   camera, timers>>
    /\ UNCHANGED <<scrambleCommits, scrambles, requests, lag>>

\* TrackballControls turns the camera to c
CameraTurn(c) ==
    /\ mounted
    /\ camera # c
    /\ camera' = c
    /\ UNCHANGED <<cubies, isAnimating, activeMove, turning, cubiesRef, analysis,
                   moveCount, played, rv>>
    /\ UNCHANGED <<isScrambling, scrambleCount, resetTrigger, pendingNotation,
                   moveCmd, cmdObject, timers>>
    /\ UNCHANGED renderVars
    /\ UNCHANGED histVars

\* onPointerUp of useCubeSwipe, which ends a swipe in triggerMove(move):
\* enabled is !isAnimating && !isScrambling of the last render of CubeModel
onPointerUp(move) ==
    /\ mounted
    /\ ~hook.isAnimating
    /\ ~hook.isScrambling
    /\ SetAnim(triggerMove(Anim, move, "swipe"))
    /\ UNCHANGED <<cubies, cubiesRef, analysis, moveCount, played, rv>>
    /\ UNCHANGED appVars
    /\ UNCHANGED renderVars
    /\ UNCHANGED <<classified, replay, scrambleCommits, scrambles, lag>>

\* a swipe that triggerMove takes and whose move goes on with the sequences
\* explored
TriggerMove(move) ==
    /\ mounted
    /\ activeMove = None
    /\ ~hook.isAnimating
    /\ Explored(Append(played, move))
    /\ onPointerUp(move)
    /\ UNCHANGED requests

\* useFrame, a frame that does not reach the target angle; the callback is
\* that of the last render of CubeModel and returns unless its isAnimating
\* is set and a move is in flight
FrameAdvance ==
    /\ mounted
    /\ hook.isAnimating
    /\ activeMove # None
    /\ turning' = TRUE
    /\ UNCHANGED <<cubies, isAnimating, activeMove, cubiesRef, analysis,
                   moveCount, played, rv>>
    /\ UNCHANGED appVars
    /\ UNCHANGED renderVars
    /\ UNCHANGED histVars

\* handleScrambleMoveComplete of App as the render r of CubeModel holds it:
\* the test reads the scrambleCount of that render, the updater
\* c => c - 1 the count queued
handleScrambleMoveComplete(r) ==
    IF r.scrambleCount > 1
    THEN /\ scrambleCount' = scrambleCount - 1
         /\ UNCHANGED <<isScrambling, timers>>
    ELSE /\ isScrambling' = FALSE
         /\ scrambleCount' = 0
         /\ timers' = timers + 1

\* handleMoveComplete of Scene: setActiveMove(null) and onNotationComplete,
\* which is setPendingNotation(null)
handleMoveComplete ==
    /\ moveCmd' = None
    /\ pendingNotation' = None

\* useFrame, the frame that reaches the target angle and commits the move.
\* The callback is that of the last render of CubeModel: it turns the cubies
\* of that render, then setCubies(newCubies), setIsAnimating(false),
\* activeMove = null, onCubeChange(newCubies), then onScrambleComplete() if
\* the isScrambling of that render is set, else onMoveComplete() if its
\* moveCmd is.  When the scramble ends moveCountRef is set to 0 after
\* onCubeChange has left it alone.  Commits of a scramble are tried while
\* fewer than MaxLag of them wait for App to render.
FrameFinish ==
    /\ mounted
    /\ hook.isAnimating
    /\ activeMove # None
    /\ hook.isScrambling => lag < MaxLag
    /\ cubies' = ApplyMove(hook.cubies, activeMove[1])
    /\ SetAnim(AtRest)
    /\ handleCubeChange(hook, cubies', "call")
    /\ IF hook.isScrambling
       THEN /\ handleScrambleMoveComplete(hook)
            /\ moveCount' = CountScrambleMove(hook, CountChange(hook, moveCount))
            /\ UNCHANGED <<moveCmd, pendingNotation>>
       ELSE /\ moveCount' = CountChange(hook, moveCount)
            /\ IF hook.moveCmd # None
               THEN handleMoveComplete
               ELSE UNCHANGED <<moveCmd, pendingNotation>>
            /\ UNCHANGED <<isScrambling, scrambleCount, timers>>
    /\ played' = IF origin = "scramble" THEN played
                 ELSE Append(played, activeMove[1])
    /\ replay' = TurnOf(hook.cubies, activeMove[1])
    /\ scrambleCommits' = IF hook.isScrambling THEN scrambleCommits + 1
                          ELSE scrambleCommits
    /\ lag' = IF hook.isScrambling THEN lag + 1 ELSE lag
    /\ UNCHANGED <<rv, resetTrigger, cmdObject, camera, scrambles, requests>>
    /\ UNCHANGED renderVars

\* The program with swipes as its only input: App renders once, and the
\* state it renders never changes.
Next ==
    \/ Mount
    \/ RenderCube
    \/ Effects
    \/ \E move \in Moves : TriggerMove(move)
    \/ FrameAdvance
    \/ FrameFinish

Spec == Init /\ [][Next]_vars

---------------------------------------------------------------------------
\* The buttons of App and the timer.  A handler is that of the last render
\* of App, and a button is disabled by the state of that render; the click
\* is taken together with the render of App and Scene that follows it.


\* a swipe; swipes that triggerMove takes are tried up to the bound
Swipe(move) ==
    /\ (scrambles = 0 /\ requests < MaxRequests) \/ activeMove # None
    /\ onPointerUp(move)
    /\ requests' = IF activeMove = None THEN requests + 1 ELSE requests

\* handleNotationClick(note) of App
handleNotationClick(note) ==
    IF dom.isScrambling \/ dom.pendingNotation # None
    THEN UNCHANGED pendingNotation
    ELSE pendingNotation' = Some(note)

\* a click on a notation button; the button of the render of App is
\* disabled by isScrambling || !!pendingNotation and then delivers no click
HandleNotationClick(note) ==
    /\ ~dom.isScrambling
    /\ dom.pendingNotation = None
    /\ handleNotationClick(note)
    /\ UNCHANGED <<cubies, isAnimating, activeMove, turning, cubiesRef, analysis,
                   moveCount, played, rv, mounted, hook, effects>>
    /\ UNCHANGED <<isScrambling, scrambleCount, resetTrigger, moveCmd,
                   cmdObject, camera, timers>>
    /\ UNCHANGED <<origin, classified, replay, scrambleCommits, scrambles>>
    /\ requests' = IF pendingNotation' # pendingNotation THEN requests + 1
                    ELSE requests
    /\ lag' = 0
    /\ dom' = Latest'

\* clicks that ask for a move are tried up to the bound
NotationClick(note) ==
    /\ scrambles = 0
    /\ requests < MaxRequests
    /\ HandleNotationClick(note)

\* handleScramble of App
handleScramble ==
    IF dom.isScrambling \/ dom.pendingNotation # None
    THEN UNCHANGED <<scrambleCount, isScrambling, moveCount, scrambleCommits>>
    ELSE /\ scrambleCount' = ScrambleLength
         /\ isScrambling' = TRUE
         /\ moveCount' = 0
         /\ scrambleCommits' = 0

\* a click on the Scramble button; the button of the render of App is
\* disabled by isScrambling || !!pendingNotation and then delivers no click.
\* Clicks are tried up to the bounds, with the camera where the Canvas puts
\* it (the scramble reads no camera)
HandleScramble ==
    /\ ~dom.isScrambling
    /\ dom.pendingNotation = None
    /\ timers < MaxTimers
    /\ scrambles < MaxScrambles
    /\ requests = 0
    /\ camera = DefaultCamera
    /\ handleScramble
    /\ scrambles' = IF isScrambling' /\ ~isScrambling THEN scrambles + 1
                     ELSE scrambles
    /\ UNCHANGED requests
    /\ UNCHANGED <<cubies, isAnimating, activeMove, turning, cubiesRef,
                   analysis, played, rv, mounted, hook, effects>>
    /\ UNCHANGED <<resetTrigger, pendingNotation, moveCmd, cmdObject, camera,
                   timers>>
    /\ UNCHANGED <<origin, classified, replay>>
    /\ lag' = 0
    /\ dom' = Latest'

\* handleReset of App, a click on the Reset button (disabled by
\* isScrambling); the reset effect of the hook follows the next render of
\* CubeModel.  Resets are tried up to the bound.
HandleReset ==
    /\ ~dom.isScrambling
    /\ resetTrigger < MaxResets
    /\ resetTrigger' = resetTrigger + 1
    /\ isScrambling' = FALSE
    /\ scrambleCount' = 0
    /\ pendingNotation' = None
    /\ analysis' = InitialAnalysis
    /\ moveCount' = 0
    /\ UNCHANGED <<cubies, isAnimating, activeMove, turning, cubiesRef, played,
                   rv, mounted, hook, effects>>
    /\ UNCHANGED <<moveCmd, cmdObject, camera, timers>>
    /\ UNCHANGED <<origin, classified, replay, scrambleCommits, scrambles,
                   requests>>
    /\ lag' = 0
    /\ dom' = Latest'

\* performAnalysis, called by who
PerformAnalysis(who) ==
    /\ analysis' \in performAnalysis(cubiesRef, analysis)
    /\ classified' = Classify(cubiesRef, who)

\* the Detect button: handlePhaseDetection = performAnalysis (the button is
\* disabled by isScrambling)
HandlePhaseDetection ==
    /\ ~dom.isScrambling
    /\ PerformAnalysis("call")
    /\ dom' = Latest
    /\ UNCHANGED <<cubies, isAnimating, activeMove, turning, cubiesRef,
                   moveCount, played, rv, mounted, hook, effects>>
    /\ UNCHANGED appVars
    /\ UNCHANGED <<origin, replay, scrambleCommits, scrambles, requests>>
    /\ lag' = 0

\* setTimeout(performAnalysis, 50) runs
TimerFire ==
    /\ timers > 0
    /\ timers' = timers - 1
    /\ PerformAnalysis("timer")
    /\ UNCHANGED <<cubies, isAnimating, activeMove, turning, cubiesRef,
                   moveCount, played, rv>>
    /\ UNCHANGED <<isScrambling, scrambleCount, resetTrigger, pendingNotation,
                   moveCmd, cmdObject, camera>>
    /\ UNCHANGED renderVars
    /\ UNCHANGED <<origin, replay, scrambleCommits, scrambles, requests, lag>>

NextApp ==
    \/ Mount
    \/ RenderDom
    \/ RenderCube
    \/ Effects
    \/ \E c \in AppCameras : scrambles = 0 /\ requests < MaxRequests /\ CameraTurn(c)
    \/ \E move \in AppSwipes : Swipe(move)
    \/ \E note \in AppNotations : NotationClick(note)
    \/ HandleScramble
    \/ HandleReset
    \/ HandlePhaseDetection
    \/ TimerFire
    \/ FrameAdvance
    \/ FrameFinish

SpecApp == Init /\ [][NextApp]_vars

\* The same program with its scheduling: the Canvas mounts its children, a
\* root with updates queued renders, the effects of a render run, useFrame
\* runs at every frame and adds to the angle until the target is reached,
\* and a timer set fires.  Each condition is the weak fairness of the step,
\* WF_vars(A), written out as []<>~(A is enabled) \/ []<><<A>>_vars with
\* the guard of A for its enabledness: every other conjunct of A is an
\* assignment.
MountEnabled == ~mounted
RenderDomEnabled == dom # Latest
RenderCubeEnabled ==
    mounted /\ effects = {} /\ hook # RenderedCube(dom, cubies, isAnimating)
EffectsEnabled == mounted /\ effects # {}
FrameFinishEnabled ==
    /\ mounted
    /\ hook.isAnimating
    /\ activeMove # None
    /\ hook.isScrambling => lag < MaxLag
TimerFireEnabled == timers > 0

FairSpecApp ==
    /\ SpecApp
    /\ []<>~MountEnabled \/ []<><<Mount>>_vars
    /\ []<>~RenderDomEnabled \/ []<><<RenderDom>>_vars
    /\ []<>~RenderCubeEnabled \/ []<><<RenderCube>>_vars
    /\ []<>~EffectsEnabled \/ []<><<Effects>>_vars
    /\ []<>~FrameFinishEnabled \/ []<><<FrameFinish>>_vars
    /\ []<>~TimerFireEnabled \/ []<><<TimerFire>>_vars

---------------------------------------------------------------------------
\* getNotationMove on its own: a click on any notation button, none
\* pending, the camera turned to any of Cameras until the move is
\* determined, the renders and the effects that take the token to the hook,
\* and no frame

NextNotation ==
    \/ Mount
    \/ RenderDom
    \/ RenderCube
    \/ Effects
    \/ \E c \in Cameras : moveCmd = None /\ CameraTurn(c)
    \/ \E note \in Notations :
           dom.pendingNotation = None /\ HandleNotationClick(note)

SpecNotation == Init /\ [][NextNotation]_vars

---------------------------------------------------------------------------
\* rotateVector on its own: a call with any lattice point, axis and
\* direction, followed by calls on the vector returned, the program as it
\* starts

\* the points of {-1, 0, 1}^3
Lattice == {-1, 0, 1} \X {-1, 0, 1} \X {-1, 0, 1}

InitRotate ==
    /\ cubies = getInitialState
    /\ isAnimating = FALSE
    /\ activeMove = None
    /\ turning = FALSE
    /\ cubiesRef = << >>
    /\ analysis = InitialAnalysis
    /\ moveCount = 0
    /\ played = << >>
    /\ rv \in [vec : Lattice, axis : Axes, direction : Directions, out : {<< >>}]
    /\ isScrambling = FALSE
    /\ scrambleCount = 0
    /\ resetTrigger = 0
    /\ pendingNotation = None
    /\ moveCmd = None
    /\ cmdObject = 0
    /\ camera = DefaultCamera
    /\ timers = 0
    /\ mounted = FALSE
    /\ dom = Rendered(FALSE, 0, 0, None, None, 0)
    /\ hook = RenderedCube(dom, getInitialState, FALSE)
    /\ effects = {}
    /\ origin = Null
    /\ classified = None
    /\ replay = getInitialState
    /\ scrambleCommits = 0
    /\ scrambles = 0
    /\ requests = 0
    /\ lag = 0

\* rotateVector(v, axis, direction), v the vector returned last (vec at first)
RotateCall ==
    /\ Len(rv.out) < MaxCalls
    /\ rv' = [rv EXCEPT !.out =
                 Append(@, rotateVector(IF Len(rv.out) = 0 THEN rv.vec
                                        ELSE rv.out[Len(rv.out)],
                                        rv.axis, rv.direction))]
    /\ UNCHANGED <<cubies, isAnimating, activeMove, turning, cubiesRef,
                   analysis, moveCount, played>>
    /\ UNCHANGED appVars
    /\ UNCHANGED renderVars
    /\ UNCHANGED histVars

NextRotate == RotateCall

SpecRotate == InitRotate /\ [][NextRotate]_vars
---------------------------------------------------------------------------
\* C1 (Closure): after any sequence of committed moves the 27 positions are
\* pairwise distinct and are exactly the lattice points of {-1,0,1}^3.
C1_Closure ==
    /\ Len(cubies) = 27
    /\ \A i, j \in DOMAIN cubies : i # j => cubies[i].position # cubies[j].position
    /\ {cubies[i].position : i \in DOMAIN cubies} = Lattice

\* a wide half turn has been committed after a listed sequence
C1_Witness ==
    /\ Len(played) >= 5
    /\ activeMove = None
    /\ Len(played[Len(played)].slice) = 2
    /\ played[Len(played)].direction = 2
    /\ \E i \in DOMAIN cubies : cubies[i].position # cubies[i].initialPosition

---------------------------------------------------------------------------
\* the last four committed moves are one and the same quarter turn
FourQuarterTurns ==
    /\ Len(played) >= 4
    /\ Abs(played[Len(played)].direction) = 1
    /\ \A k \in 1..3 : played[Len(played) - k] = played[Len(played)]

\* the pieces as they were before the last four committed moves
BeforeFour == ApplyMoves(getInitialState, SubSeq(played, 1, Len(played) - 4))

QNeg(q) == <<-q[1], -q[2], -q[3], -q[4]>>

\* two quaternions of the same rotation
SameRotation(a, b) == a = b \/ a = QNeg(b)

\* C2 (Identity move): after the same quarter-turn move (same axis, same
\* slice set, direction +1 or -1) has been committed four times in a row,
\* every piece has the position it had before the four moves and its
\* orientation is the rotation it was before them.
C2_Identity ==
    FourQuarterTurns =>
        \A i \in DOMAIN cubies :
            /\ cubies[i].position = BeforeFour[i].position
            /\ SameRotation(cubies[i].quaternion, BeforeFour[i].quaternion)

\* four quarter turns of one layer have been committed after a listed
\* sequence, and a piece of the layer, turned before them, has gone through
\* the whole turn of 360 degrees and is where and how it was
C2_Witness ==
    /\ FourQuarterTurns
    /\ Len(played) >= 8
    /\ Len(played[Len(played)].slice) = 1
    /\ \E i \in DOMAIN cubies :
           /\ BeforeFour[i].quaternion # IdentityQuat
           /\ Includes(played[Len(played)].slice,
                       BeforeFour[i].position[AxisIndex(played[Len(played)].axis)])
           /\ cubies[i].position = BeforeFour[i].position
           /\ SameRotation(cubies[i].quaternion, BeforeFour[i].quaternion)

---------------------------------------------------------------------------
\* the pieces of the current state, by kind
Centers == SelectSeq(cubies, isCenter)
Edges == SelectSeq(cubies, isEdge)
Corners == SelectSeq(cubies, isCorner)

\* the result of base candidate i (i-th center) in the current state
Candidate(i) == CandidateResult(Centers, Edges, Corners, Centers[i], AnyResidue)

\* C3 (Solved state): on the snapshot of getInitialState each of the six
\* centers taken as base evaluates to Solved, identifyPLL returning "Solved"
\* for the layer of the opposite center, and once the snapshot has been
\* handed to App its analysis is Solved with isSolved true and a base color.
C3_SolvedState ==
    (played = << >>) =>
        /\ cubies = getInitialState
        /\ Len(Centers) = 6
        /\ \A i \in DOMAIN Centers :
               LET top == findTopCenter(Centers, Centers[i])
               IN  /\ Candidate(i).cross
                   /\ Candidate(i).phase = "Solved"
                   /\ top # None
                   /\ identifyPLL(topPiecesOf(Edges, Corners, top[1]), top[1]) = "Solved"
        /\ cubiesRef = cubies =>
               /\ analysis.phase = "Solved"
               /\ analysis.isSolved
               /\ analysis.baseColor # Null
               /\ analysis \in Analyses(getInitialState)

\* the initial snapshot has been analysed and no move is committed yet
C3_Witness ==
    /\ played = << >>
    /\ cubiesRef = getInitialState
    /\ analysis.isSolved
    /\ moveCount = 1

---------------------------------------------------------------------------
\* exactly one move is committed, a quarter turn of one outer layer
SingleOuterQuarterTurn ==
    /\ Len(played) = 1
    /\ played[1].slice \in {<<1>>, <<-1>>}
    /\ Abs(played[1].direction) = 1

\* the index in Centers of the center of the face opposite the turned layer
OppositeCenter(move) ==
    CHOOSE i \in DOMAIN Centers :
        Centers[i].initialPosition = VScale(-move.slice[1], AxisVec(move.axis))

\* C4 (Single-move regression): one quarter turn of an outer layer away from
\* solved, the candidate whose base is the center of the opposite face has its
\* cross and its four pairs solved and is in a last-layer phase, and the
\* analysis reports a phase of rank OLL or more.
C4_SingleMove ==
    SingleOuterQuarterTurn =>
        LET i == OppositeCenter(played[1])
        IN  /\ isCrossSolved(Edges, Centers[i])
            /\ F2LCounts(Edges, Corners, Centers[i]).solvedPairs = 4
            /\ Candidate(i).phase \in {"OLL", "PLL", "Solved"}
            /\ phaseValue[analysis.phase] >= phaseValue["OLL"]

\* a quarter turn of the upper layer is committed and has moved a corner
C4_Witness ==
    /\ SingleOuterQuarterTurn
    /\ played[1].axis = "y"
    /\ played[1].slice = <<1>>
    /\ activeMove = None
    /\ \E i \in DOMAIN cubies :
           isCorner(cubies[i]) /\ cubies[i].position # cubies[i].initialPosition

---------------------------------------------------------------------------
\* the turns about the center's own axis, the identity included
CenterTwists(center) ==
    {IdentityQuat} \cup {SetFromAxisAngle(center.initialPosition, d) : d \in {1, -1, 2}}

\* C5 (isCorrectlyPlaced), as the code has it: isCorrectlyPlaced(piece,
\* center) is true exactly when the current vector from the piece to the
\* center is the origin vector turned by the piece's own orientation; that is,
\* exactly when the piece's orientation carries the center's origin to the
\* center's current position; that is, exactly when the piece's orientation is
\* the center's orientation composed with a turn about the center's own axis.
\* The center's orientation is not compared with the piece's.
C5_PlacedByPieceOrientation ==
    LET centers == Centers
    IN  \A j \in DOMAIN centers : \A i \in DOMAIN cubies :
        LET piece  == cubies[i]
            center == centers[j]
            placed == isCorrectlyPlaced(piece, center)
        IN  /\ placed <=>
                   VSub(center.position, piece.position) =
                       ApplyQuaternion(VSub(center.initialPosition,
                                            piece.initialPosition), piece.quaternion)
            /\ placed <=>
                   ApplyQuaternion(center.initialPosition, piece.quaternion) =
                       center.position
            /\ placed <=>
                   \E t \in CenterTwists(center) :
                       SameRotation(piece.quaternion,
                                    QNormalize(QMul(center.quaternion, t)))

\* an edge is reported correctly placed for a center whose orientation is not
\* the edge's, and another edge is reported not placed for that center
C5_Witness ==
    LET centers == Centers
        edges   == Edges
    IN  \E j \in DOMAIN centers :
            /\ \E i \in DOMAIN edges :
                   /\ isCorrectlyPlaced(edges[i], centers[j])
                   /\ ~SameRotation(edges[i].quaternion, centers[j].quaternion)
            /\ \E k \in DOMAIN edges : ~isCorrectlyPlaced(edges[k], centers[j])

\* C5 as stated: a piece reported correctly placed sits in its solved slot
\* relative to the center (the origin vector turned by the center's
\* orientation) and has the center's orientation.
C5_PlacedMeansCenterOrientation ==
    LET centers == Centers
    IN  \A j \in DOMAIN centers : \A i \in DOMAIN cubies :
        LET piece  == cubies[i]
            center == centers[j]
        IN  isCorrectlyPlaced(piece, center) =>
                /\ VSub(center.position, piece.position) =
                       ApplyQuaternion(VSub(center.initialPosition,
                                            piece.initialPosition), center.quaternion)
                /\ SameRotation(piece.quaternion, center.quaternion)

---------------------------------------------------------------------------
\* no center has its four cross edges correctly placed
NoCrossSolved == \A j \in DOMAIN Centers : ~isCrossSolved(Edges, Centers[j])

\* C7 (Fallback): when no center has its four cross edges correctly placed the
\* analysis is exactly phase Cross, baseColor null, isSolved false, with no
\* f2lTag, missingCount, ollCase or pllCase; a result of phase Cross has
\* baseColor null; and the phase is never Scrambled.
C7_Fallback ==
    /\ NoCrossSolved =>
           analysis = [phase |-> "Cross", baseColor |-> Null, isSolved |-> FALSE,
                       f2lTag |-> Undefined, missingCount |-> None,
                       ollCase |-> Undefined, pllCase |-> Undefined]
    /\ analysis.phase = "Cross" => analysis.baseColor = Null
    /\ analysis.phase # "Scrambled"

\* a move committed after a listed sequence has left no center with a solved
\* cross, and the analysis of that state is the fallback
C7_Witness ==
    /\ Len(played) >= 5
    /\ activeMove = None
    /\ NoCrossSolved
    /\ analysis.phase = "Cross"
    /\ cubiesRef = cubies

---------------------------------------------------------------------------
\* the minimum of a non-empty set of numbers
Min(S) == CHOOSE m \in S : \A n \in S : m <= n

\* C8 (Candidate selection): the phase of the analysis of the pieces is the
\* highest phase of the candidates whose cross is solved (Cross when there
\* is none); when it is
\* F2L, missingCount is the least missingCount of the F2L candidates, and
\* baseColor and f2lTag are those of a candidate with that missingCount.
C8_Selection ==
    LET r        == [i \in DOMAIN Centers |-> Candidate(i)]
        accepted == {i \in DOMAIN r : r[i].cross}
        inF2L    == {i \in accepted : r[i].phase = "F2L"}
    IN  cubiesRef = cubies =>
        /\ \A i \in accepted :
               phaseValue[r[i].phase] <= phaseValue[analysis.phase]
        /\ accepted # {} => \E i \in accepted : r[i].phase = analysis.phase
        /\ accepted = {} => analysis.phase = "Cross"
        /\ analysis.phase = "F2L" =>
               LET least == Min({r[i].missingCount[1] : i \in inF2L})
               IN  /\ analysis.missingCount = Some(least)
                   /\ \E i \in inF2L :
                          /\ r[i].missingCount = Some(least)
                          /\ analysis.baseColor = colorHexOf(Some(Centers[i]))
                          /\ analysis.f2lTag = r[i].f2lTag

\* two candidates are in F2L and the later one of the loop misses fewer: its
\* color is the one reported
C8_Witness ==
    LET r == [i \in DOMAIN Centers |-> Candidate(i)]
    IN  /\ analysis.phase = "F2L"
        /\ \E i, j \in DOMAIN r :
               /\ i < j
               /\ r[i].cross /\ r[i].phase = "F2L"
               /\ r[j].cross /\ r[j].phase = "F2L"
               /\ r[j].missingCount[1] < r[i].missingCount[1]
               /\ analysis.missingCount = r[j].missingCount
               /\ analysis.baseColor = colorHexOf(Some(Centers[j]))

---------------------------------------------------------------------------
\* C9 (F2L decision table): a candidate whose cross is solved and whose
\* solvedPairs is below 4 is in F2L, with no tag and missingCount 4 -
\* solvedPairs when solvedPairs >= 2, else tag "Second Layer" and missingCount
\* 4 - solvedEdges when solvedCorners = 4, else tag "First Layer" and
\* missingCount 4 - solvedCorners; missingCount is between 1 and 4.
C9_F2LTable ==
    \A i \in DOMAIN Centers :
        LET n == F2LCounts(Edges, Corners, Centers[i])
            r == Candidate(i)
        IN  (isCrossSolved(Edges, Centers[i]) /\ n.solvedPairs < 4) =>
                /\ r.cross
                /\ r.phase = "F2L"
                /\ r.ollCase = Undefined /\ r.pllCase = Undefined
                /\ n.solvedPairs >= 2 =>
                       r.f2lTag = Undefined /\ r.missingCount = <<4 - n.solvedPairs>>
                /\ (n.solvedPairs < 2 /\ n.solvedCorners = 4) =>
                       /\ r.f2lTag = "Second Layer"
                       /\ r.missingCount = <<4 - n.solvedEdges>>
                /\ (n.solvedPairs < 2 /\ n.solvedCorners # 4) =>
                       /\ r.f2lTag = "First Layer"
                       /\ r.missingCount = <<4 - n.solvedCorners>>
                /\ r.missingCount # None
                /\ r.missingCount[1] \in 1..4

\* a candidate has its cross and its four corners solved and none of its four
\* edges: the "Second Layer" row, with all four missing
C9_Witness ==
    \E i \in DOMAIN Centers :
        LET n == F2LCounts(Edges, Corners, Centers[i])
        IN  /\ isCrossSolved(Edges, Centers[i])
            /\ n.solvedPairs = 0
            /\ n.solvedCorners = 4
            /\ n.solvedEdges = 0
            /\ Candidate(i).f2lTag = "Second Layer"
            /\ Candidate(i).missingCount = <<4>>

---------------------------------------------------------------------------
\* the signed unit vectors of the three axes
SignedAxes == {<<1, 0, 0>>, <<-1, 0, 0>>, <<0, 1, 0>>, <<0, -1, 0>>,
               <<0, 0, 1>>, <<0, 0, -1>>}

\* q is a rotation of the cube onto itself: it carries every axis to an axis
IsCubeRotation(q) ==
    \A e \in SignedAxes : \E f \in SignedAxes : RotNum(e, q) = VScale(LenSq4(q), f)

\* q is a turn by a multiple of 90 degrees about x, y or z: its vector part
\* lies along one axis, and its half angle is a multiple of 45 degrees
IsAxisTurn(q) ==
    /\ Cardinality({k \in 1..3 : q[k] # 0}) <= 1
    /\ \A k \in 1..3 : q[k] = 0 \/ q[4] = 0 \/ Abs(q[k]) = Abs(q[4])

\* C10 (Orientation invariant), as the code has it: every piece's orientation
\* is one of the 24 rotations of the cube onto itself, a composition of turns
\* by multiples of 90 degrees about x, y and z (its stored quaternion is one
\* of their 48 quaternions, reduced).
C10_CubeRotation ==
    \A i \in DOMAIN cubies :
        LET q == cubies[i].quaternion
        IN  /\ IsCubeRotation(q)
            /\ \A k \in 1..4 : q[k] \in -1..1
            /\ LenSq4(q) \in {1, 2, 4}

\* a piece has been turned about two different axes: its orientation is a
\* turn of 120 degrees about a diagonal of the cube
C10_Witness ==
    \E i \in DOMAIN cubies :
        /\ \A k \in 1..4 : cubies[i].quaternion[k] # 0
        /\ IsCubeRotation(cubies[i].quaternion)
        /\ cubies[i].position # cubies[i].initialPosition

\* C10 as stated: every piece's orientation is a turn by a multiple of 90
\* degrees about one of the axes x, y, z.
C10_SingleAxis ==
    \A i \in DOMAIN cubies : IsAxisTurn(cubies[i].quaternion)

---------------------------------------------------------------------------
\* C11 (Frame of a move): the commit of a move leaves every piece whose
\* coordinate along the move's axis is not in the move's slice array as it
\* was (position and quaternion), changes no piece's id or initialPosition,
\* and with an empty slice array changes no piece at all.
C11_Frame ==
    [][played' # played =>
          LET move == played'[Len(played')]
          IN  /\ DOMAIN cubies' = DOMAIN cubies
              /\ \A i \in DOMAIN cubies :
                     /\ cubies'[i].id = cubies[i].id
                     /\ cubies'[i].initialPosition = cubies[i].initialPosition
                     /\ ~Includes(move.slice, cubies[i].position[AxisIndex(move.axis)])
                            => cubies'[i] = cubies[i]
              /\ move.slice = << >> => cubies' = cubies]_vars

\* the last committed move turned one layer of a cube that was no longer
\* solved: a piece off its origin is outside the layer and kept its place
\* and quaternion, and a piece of the layer was turned
C11_Witness ==
    /\ Len(played) >= 5
    /\ activeMove = None
    /\ LET move   == played[Len(played)]
           before == ApplyMoves(getInitialState, SubSeq(played, 1, Len(played) - 1))
       IN  /\ Len(move.slice) = 1
           /\ \E i \in DOMAIN cubies :
                  /\ ~Includes(move.slice, before[i].position[AxisIndex(move.axis)])
                  /\ before[i].position # before[i].initialPosition
                  /\ cubies[i] = before[i]
           /\ \E i \in DOMAIN cubies : cubies[i].quaternion # before[i].quaternion

---------------------------------------------------------------------------
\* C12 (rotateVector): every call on a lattice point returns a lattice point;
\* a direction of 2 or -2 keeps the coordinate of the axis and negates the
\* other two; a direction of 1 or -1 gives the quarter turn by the right-hand
\* rule, the vector that the quaternion of that turn gives (about x:
\* (x, y, z) -> (x, -dir z, dir y)); and two calls with direction 1 or -1 give
\* what one call with direction 2 gives.
C12_RotateVector ==
    (rv # None /\ Len(rv.out) >= 1) =>
        LET v == rv.vec
            a == AxisIndex(rv.axis)
            d == rv.direction
            r == rv.out[1]
            q == SetFromAxisAngle(AxisVec(rv.axis), d)
        IN  /\ \A k \in DOMAIN rv.out : rv.out[k] \in Lattice
            /\ Abs(d) = 2 =>
                   /\ r[a] = v[a]
                   /\ \A k \in (1..3) \ {a} : r[k] = -v[k]
            /\ Abs(d) = 1 =>
                   /\ VScale(LenSq4(q), r) = RotNum(v, q)
                   /\ rv.axis = "x" => r = <<v[1], -d * v[3], d * v[2]>>
            /\ (Abs(d) = 1 /\ Len(rv.out) >= 2) =>
                   /\ rv.out[2] = rotateVector(v, rv.axis, 2)
                   /\ rv.out[2][a] = v[a]
                   /\ \A k \in (1..3) \ {a} : rv.out[2][k] = -v[k]

\* a corner has been turned twice about y with direction -1
C12_Witness ==
    /\ rv # None
    /\ Len(rv.out) = 2
    /\ rv.axis = "y"
    /\ rv.direction = -1
    /\ SumAbs(rv.vec) = 3
    /\ rv.out[1] # rv.vec
    /\ rv.out[2] = <<-rv.vec[1], rv.vec[2], -rv.vec[3]>>

---------------------------------------------------------------------------
\* the center opposite base candidate i, and the pieces of its layer
TopOf(i) == findTopCenter(Centers, Centers[i])[1]
TopPieces(i) == topPiecesOf(Edges, Corners, TopOf(i))

\* base candidate i reaches the last layer: cross and four pairs solved
InLastLayer(i) ==
    /\ isCrossSolved(Edges, Centers[i])
    /\ F2LCounts(Edges, Corners, Centers[i]).solvedPairs = 4

\* the direction a piece's top sticker faces, and the one the top center's does
TopNormal(piece, i) == ApplyQuaternion(TopOf(i).initialPosition, piece.quaternion)
UpOf(i) == TopNormal(TopOf(i), i)

\* C13 (OLL/PLL split): for a base candidate with cross solved and
\* solvedPairs = 4 the top layer is the 4 edges and 4 corners whose origin
\* lies in the layer of the opposite center; the candidate's phase is PLL or
\* Solved, with no ollCase, exactly when all 8 satisfy isOrientedForOLL (the
\* top sticker of each faces where the top center's does); otherwise the phase
\* is OLL, ollCase is the value of identify2LookOLL and pllCase is absent.
C13_Split ==
    \A i \in DOMAIN Centers :
        InLastLayer(i) =>
            LET tp          == TopPieces(i)
                r           == Candidate(i)
                allOriented == \A k \in DOMAIN tp : isOrientedForOLL(tp[k], TopOf(i))
            IN  /\ findTopCenter(Centers, Centers[i]) # None
                /\ TopOf(i).initialPosition = VNeg(Centers[i].initialPosition)
                /\ Len(SelectSeq(tp, isEdge)) = 4
                /\ Len(SelectSeq(tp, isCorner)) = 4
                /\ Len(tp) = 8
                /\ \A k \in DOMAIN tp :
                       Dot(tp[k].initialPosition, TopOf(i).initialPosition) = 1
                /\ \A k \in DOMAIN tp :
                       isOrientedForOLL(tp[k], TopOf(i)) <=>
                           TopNormal(tp[k], i) = UpOf(i)
                /\ r.cross
                /\ allOriented <=> (r.phase \in {"PLL", "Solved"})
                /\ allOriented => r.ollCase = Undefined
                /\ ~allOriented =>
                       /\ r.phase = "OLL"
                       /\ r.ollCase = identify2LookOLL(tp, TopOf(i), AnyResidue)
                       /\ r.ollCase # Undefined
                       /\ r.pllCase = Undefined

\* a candidate reaches the last layer with the four top edges oriented and a
\* top corner not: it is in OLL with a case name, and the analysis reports it
C13_Witness ==
    \E i \in DOMAIN Centers :
        /\ InLastLayer(i)
        /\ \A k \in DOMAIN TopPieces(i) :
               isEdge(TopPieces(i)[k]) => isOrientedForOLL(TopPieces(i)[k], TopOf(i))
        /\ \E k \in DOMAIN TopPieces(i) : ~isOrientedForOLL(TopPieces(i)[k], TopOf(i))
        /\ Candidate(i).phase = "OLL"
        /\ Candidate(i).ollCase \in {"Sune", "Anti-Sune", "H", "Pi", "U", "T", "L"}
        /\ analysis.phase = "OLL"
        /\ analysis.ollCase = Candidate(i).ollCase

---------------------------------------------------------------------------
\* the pieces of the layer opposite base candidate i are all oriented
TopOriented(i) ==
    \A k \in DOMAIN TopPieces(i) : isOrientedForOLL(TopPieces(i)[k], TopOf(i))

\* C14 (Solved upgrade): a candidate's phase is Solved exactly when it reaches
\* the last layer with the top layer oriented and identifyPLL returns
\* "Solved", and then it has no pllCase; when identifyPLL returns another
\* value the phase is PLL and pllCase is that value.  In the result of
\* analyzeCube isSolved is true if and only if phase is "Solved", and a result
\* of phase "Solved" has no pllCase and no ollCase.
C14_SolvedUpgrade ==
    /\ \A i \in DOMAIN Centers :
           LET r == Candidate(i)
           IN  /\ (InLastLayer(i) /\ TopOriented(i)) =>
                      LET pll == identifyPLL(TopPieces(i), TopOf(i))
                      IN  /\ r.phase = "Solved" <=> pll = "Solved"
                          /\ pll = "Solved" => r.pllCase = Undefined
                          /\ pll # "Solved" => r.phase = "PLL" /\ r.pllCase = pll
               /\ r.phase = "Solved" =>
                      /\ r.cross /\ InLastLayer(i) /\ TopOriented(i)
                      /\ r.pllCase = Undefined /\ r.ollCase = Undefined
    /\ analysis.isSolved <=> analysis.phase = "Solved"
    /\ analysis.phase = "Solved" =>
           analysis.pllCase = Undefined /\ analysis.ollCase = Undefined
    /\ analysis \in Analyses(cubiesRef)

\* after some moves one candidate is Solved and another is in PLL with a case
\* name; the analysis is Solved and carries no case
C14_Witness ==
    /\ Len(played) >= 1
    /\ activeMove = None
    /\ \E i, j \in DOMAIN Centers :
           /\ Candidate(i).phase = "Solved"
           /\ Candidate(j).phase = "PLL"
           /\ Candidate(j).pllCase = identifyPLL(TopPieces(j), TopOf(j))
    /\ analysis.isSolved
    /\ analysis.pllCase = Undefined

---------------------------------------------------------------------------
\* identify2LookOLL is called for base candidate i
OLLCalled(i) == InLastLayer(i) /\ ~TopOriented(i)

\* the value identify2LookOLL returns for base candidate i
OLLOf(i) == identify2LookOLL(TopPieces(i), TopOf(i), AnyResidue)

\* the top edges, and the top corners, whose top sticker faces up
OrientedEdges(i) ==
    SelectSeq(TopPieces(i), LAMBDA p : isEdge(p) /\ TopNormal(p, i) = UpOf(i))
OrientedCorners(i) ==
    SelectSeq(TopPieces(i), LAMBDA p : isCorner(p) /\ TopNormal(p, i) = UpOf(i))

\* C15 (OLL edge stage), as the code has it: with fewer than 4 top edges
\* oriented identify2LookOLL returns "Dot" for 0 oriented edges; for 2 it
\* returns "L-Shape" when the two oriented edges are next to each other where
\* they are now (their current positions differ by sqrt 2, below 1.8) and
\* "Line" when they are opposite each other (their current positions differ
\* by 2); for 1 or 3 it returns "Unknown".  Whenever the function is called
\* the number of oriented edges is 0, 2 or 4.
C15_EdgeStage ==
    \A i \in DOMAIN Centers :
        OLLCalled(i) =>
            LET oe == OrientedEdges(i)
            IN  /\ Candidate(i).ollCase = OLLOf(i)
                /\ Len(oe) \in {0, 2, 4}
                /\ Len(oe) = 0 => OLLOf(i) = "Dot"
                /\ Len(oe) = 2 =>
                       /\ DistSq(oe[1].position, oe[2].position) \in {2, 4}
                       /\ DistSq(oe[1].position, oe[2].position) = 2
                              => OLLOf(i) = "L-Shape"
                       /\ DistSq(oe[1].position, oe[2].position) = 4
                              => OLLOf(i) = "Line"
                /\ Len(oe) \in {1, 3} => OLLOf(i) = "Unknown"
                /\ Len(oe) = 4 => OLLOf(i) \notin {"Dot", "L-Shape", "Line"}

\* two top edges are oriented and sit opposite each other, though their
\* origins are next to each other: the case is "Line"
C15_Witness ==
    \E i \in DOMAIN Centers :
        /\ OLLCalled(i)
        /\ Len(OrientedEdges(i)) = 2
        /\ DistSq(OrientedEdges(i)[1].position, OrientedEdges(i)[2].position) = 4
        /\ DistSq(OrientedEdges(i)[1].initialPosition,
                  OrientedEdges(i)[2].initialPosition) = 2
        /\ Candidate(i).ollCase = "Line"
        /\ analysis.ollCase = "Line"

\* C15 as stated: with 2 oriented edges the case is "L-Shape" when the
\* distance between the origins of the two is below 1.8 and "Line" when the
\* origins are opposite.
C15_EdgeStageByOrigin ==
    \A i \in DOMAIN Centers :
        OLLCalled(i) =>
            LET oe == OrientedEdges(i)
            IN  /\ Len(oe) = 0 => OLLOf(i) = "Dot"
                /\ Len(oe) = 2 =>
                       /\ 100 * DistSq(oe[1].initialPosition, oe[2].initialPosition) < 324
                              => OLLOf(i) = "L-Shape"
                       /\ DistSq(oe[1].initialPosition, oe[2].initialPosition) = 4
                              => OLLOf(i) = "Line"
                /\ Len(oe) \in {1, 3} => OLLOf(i) = "Unknown"

---------------------------------------------------------------------------
\* the listed algorithms "Sune" (R U R' U R U2 R') and "Anti-Sune"
\* (R U2 R' U' R U' R') of OLL_ALGORITHMS, each inverted: the moves that take
\* the solved cube to the case the algorithm solves
SuneInverse == <<mR, mU2, mRp, mUp, mR, mUp, mRp>>
AntiSuneInverse == <<mR, mU, mRp, mU, mR, mU2, mRp>>

\* the top corners of base candidate i
TopCorners(i) == SelectSeq(TopPieces(i), isCorner)

\* a corner's place in the top layer, from the top center
Radial(c, i) == VSub(c.position, TopOf(i).position)

\* corner n is the next corner after corner c going clockwise round the top
\* layer, seen from above the top face
IsClockwiseNeighbor(n, c, i) == Radial(n, i) = Cross(Radial(c, i), UpOf(i))

\* corner c is twisted clockwise, seen from outside the cube along the
\* corner's diagonal: its top sticker faces the side that follows the top face
\* clockwise round the corner; and twisted counter-clockwise
TwistedClockwise(c, i) ==
    VAdd(TopNormal(c, i), Cross(TopNormal(c, i), UpOf(i))) = Radial(c, i)
TwistedCounterClockwise(c, i) ==
    VAdd(TopNormal(c, i), Cross(UpOf(i), TopNormal(c, i))) = Radial(c, i)

\* identify2LookOLL is called for base candidate i with the four top edges and
\* exactly one top corner oriented
OneCornerOriented(i) ==
    /\ OLLCalled(i)
    /\ Len(OrientedEdges(i)) = 4
    /\ Len(OrientedCorners(i)) = 1

\* C16 (Sune recognition) as stated: with all 4 top edges and exactly one top
\* corner oriented, identify2LookOLL returns "Sune" if the clockwise neighbor
\* of the oriented corner is twisted clockwise and "Anti-Sune" if it is
\* twisted counter-clockwise; and the state left by the inverse of the listed
\* Sune algorithm is reported as "Sune", the one left by the inverse of the
\* listed Anti-Sune algorithm as "Anti-Sune".
C16_SuneRecognition ==
    /\ \A i \in DOMAIN Centers :
           OneCornerOriented(i) =>
               \A k \in DOMAIN TopCorners(i) :
                   IsClockwiseNeighbor(TopCorners(i)[k], OrientedCorners(i)[1], i) =>
                       /\ TwistedClockwise(TopCorners(i)[k], i)
                              => OLLOf(i) = "Sune"
                       /\ TwistedCounterClockwise(TopCorners(i)[k], i)
                              => OLLOf(i) = "Anti-Sune"
    /\ (played = SuneInverse /\ activeMove = None) => analysis.ollCase = "Sune"
    /\ (played = AntiSuneInverse /\ activeMove = None)
           => analysis.ollCase = "Anti-Sune"

\* the inverse of the listed Sune algorithm has been played on the solved
\* cube: one top corner is oriented, the other three are twisted
\* counter-clockwise, and the case reported is "Anti-Sune"
C16_Witness ==
    /\ played = SuneInverse
    /\ activeMove = None
    /\ analysis.phase = "OLL"
    /\ analysis.ollCase = "Anti-Sune"
    /\ \E i \in DOMAIN Centers :
           /\ OneCornerOriented(i)
           /\ Candidate(i).ollCase = "Anti-Sune"
           /\ \A k \in DOMAIN TopCorners(i) :
                  TopCorners(i)[k] # OrientedCorners(i)[1]
                      => TwistedCounterClockwise(TopCorners(i)[k], i)

\* C16, what the code does: with all 4 top edges and exactly one top corner
\* oriented the other three top corners are twisted the same way, and
\* identify2LookOLL returns "Sune" when they are twisted clockwise and
\* "Anti-Sune" when they are twisted counter-clockwise, the twist computed
\* being far from zero so that the rounding of the stored quaternions has no
\* say; the state left by the inverse of the listed Sune algorithm is
\* reported as "Anti-Sune" and the one left by the inverse of the listed
\* Anti-Sune algorithm as "Sune".
C16_TwistRule ==
    /\ \A i \in DOMAIN Centers :
           OneCornerOriented(i) =>
               LET others == SelectSeq(TopCorners(i),
                                 LAMBDA c : c # OrientedCorners(i)[1])
               IN  /\ Len(others) = 3
                   /\ \E k \in DOMAIN others :
                          IsClockwiseNeighbor(others[k], OrientedCorners(i)[1], i)
                   /\ \/ /\ \A k \in DOMAIN others : TwistedClockwise(others[k], i)
                         /\ OLLOf(i) = "Sune"
                      \/ /\ \A k \in DOMAIN others :
                                TwistedCounterClockwise(others[k], i)
                         /\ OLLOf(i) = "Anti-Sune"
                   /\ \A residue \in Residues :
                          identify2LookOLL(TopPieces(i), TopOf(i), residue) = OLLOf(i)
    /\ (played = SuneInverse /\ activeMove = None)
           => analysis.ollCase = "Anti-Sune"
    /\ (played = AntiSuneInverse /\ activeMove = None) => analysis.ollCase = "Sune"

---------------------------------------------------------------------------
\* identify2LookOLL is called for base candidate i with the four top edges
\* oriented and no top corner oriented
NoCornerOriented(i) ==
    /\ OLLCalled(i)
    /\ Len(OrientedEdges(i)) = 4
    /\ Len(OrientedCorners(i)) = 0

\* the pairs of top corners that sit next to each other (2 apart) and whose
\* top stickers face the same side
SameFacingPairs(i) ==
    {pr \in SUBSET (DOMAIN TopCorners(i)) :
        /\ Cardinality(pr) = 2
        /\ \A a, b \in pr :
               a # b =>
                   /\ DistSq(TopCorners(i)[a].position, TopCorners(i)[b].position) = 4
                   /\ TopNormal(TopCorners(i)[a], i) = TopNormal(TopCorners(i)[b], i)}

\* going round the top layer the corners are twisted clockwise and
\* counter-clockwise in turn
TwistsAlternate(i) ==
    \A a, b \in DOMAIN TopCorners(i) :
        IsClockwiseNeighbor(TopCorners(i)[b], TopCorners(i)[a], i) =>
            (TwistedClockwise(TopCorners(i)[a], i)
                 <=> TwistedCounterClockwise(TopCorners(i)[b], i))

\* C17 (OLL with no corner oriented): with all 4 top edges and no top corner
\* oriented, identify2LookOLL returns "H" when 2 or more pairs of adjacent
\* corners have top stickers facing the same way, "Pi" when exactly 1 pair
\* has, and "Unknown" when none has; the number of such pairs is 1 or 2, and
\* it is 2 exactly when the twists of the corners alternate round the layer.
C17_NoCorner ==
    \A i \in DOMAIN Centers :
        NoCornerOriented(i) =>
            LET n == Cardinality(SameFacingPairs(i))
            IN  /\ Candidate(i).ollCase = OLLOf(i)
                /\ n >= 2 => OLLOf(i) = "H"
                /\ n = 1 => OLLOf(i) = "Pi"
                /\ n = 0 => OLLOf(i) = "Unknown"
                /\ n \in {1, 2}
                /\ n = 2 <=> TwistsAlternate(i)
                /\ \A k \in DOMAIN TopCorners(i) :
                       TwistedClockwise(TopCorners(i)[k], i)
                           \/ TwistedCounterClockwise(TopCorners(i)[k], i)

\* no top corner is oriented, two neighbors are twisted the same way, and
\* exactly one pair of corners faces the same side: the case is "Pi"
C17_Witness ==
    \E i \in DOMAIN Centers :
        /\ NoCornerOriented(i)
        /\ Cardinality(SameFacingPairs(i)) = 1
        /\ ~TwistsAlternate(i)
        /\ Candidate(i).ollCase = "Pi"
        /\ analysis.ollCase = "Pi"

---------------------------------------------------------------------------
\* identify2LookOLL is called for base candidate i with the four top edges
\* and exactly two top corners oriented
TwoCornersOriented(i) ==
    /\ OLLCalled(i)
    /\ Len(OrientedEdges(i)) = 4
    /\ Len(OrientedCorners(i)) = 2

\* the top corners that are not oriented
UnorientedCorners(i) ==
    SelectSeq(TopCorners(i), LAMBDA c : TopNormal(c, i) # UpOf(i))

\* C18 (OLL with two corners oriented): with all 4 top edges and exactly 2 top
\* corners oriented, identify2LookOLL returns "L" if the two oriented corners
\* sit diagonally (2 sqrt 2 apart, above 2.2); if they sit next to each other
\* (2 apart) it returns "U" when the top stickers of the two unoriented
\* corners face the same side and "T" when they do not.
C18_TwoCorners ==
    \A i \in DOMAIN Centers :
        TwoCornersOriented(i) =>
            LET oc == OrientedCorners(i)
                un == UnorientedCorners(i)
                d  == DistSq(oc[1].position, oc[2].position)
            IN  /\ Candidate(i).ollCase = OLLOf(i)
                /\ d \in {4, 8}
                /\ Len(un) = 2
                /\ d = 8 => OLLOf(i) = "L"
                /\ (d = 4 /\ TopNormal(un[1], i) = TopNormal(un[2], i))
                       => OLLOf(i) = "U"
                /\ (d = 4 /\ TopNormal(un[1], i) # TopNormal(un[2], i))
                       => OLLOf(i) = "T"

\* two oriented corners sit next to each other, though their origins are
\* diagonal, and the other two face the same side: the case is "U"
C18_Witness ==
    \E i \in DOMAIN Centers :
        /\ TwoCornersOriented(i)
        /\ DistSq(OrientedCorners(i)[1].position, OrientedCorners(i)[2].position) = 4
        /\ DistSq(OrientedCorners(i)[1].initialPosition,
                  OrientedCorners(i)[2].initialPosition) = 8
        /\ TopNormal(UnorientedCorners(i)[1], i) = TopNormal(UnorientedCorners(i)[2], i)
        /\ Candidate(i).ollCase = "U"
        /\ analysis.ollCase = "U"

---------------------------------------------------------------------------
\* identifyPLL is called for base candidate i
PLLCalled(i) == InLastLayer(i) /\ TopOriented(i)

\* the value identifyPLL returns for the layer opposite base candidate i
PLLOf(i) == identifyPLL(TopPieces(i), TopOf(i))

\* the unit directions perpendicular to the up direction of candidate i
SidesOf(i) == {d \in Lattice : Dot(d, d) = 1 /\ Dot(d, UpOf(i)) = 0}

\* the colour piece p shows towards direction d: the colour of the face of
\* its origin that its rotation has turned to d, Null when it shows none
FacingColor(p, d) ==
    LET shown == {k \in DOMAIN localNormals :
                     /\ Dot(localNormals[k].vec, p.initialPosition) = 1
                     /\ ApplyQuaternion(localNormals[k].vec, p.quaternion) = d}
    IN  IF shown = {} THEN Null ELSE localNormals[CHOOSE k \in shown : TRUE].color

\* the corners, and the edges, among the top pieces tp that sit on side d
\* of the top center tc
CornersOnSide(tp, tc, d) ==
    {k \in DOMAIN tp :
        isCorner(tp[k]) /\ Dot(VSub(tp[k].position, tc.position), d) = 1}
EdgesOnSide(tp, tc, d) ==
    {k \in DOMAIN tp :
        isEdge(tp[k]) /\ Dot(VSub(tp[k].position, tc.position), d) = 1}

\* the colours the corners, and the edges, on side d show towards d
CornerColors(tp, tc, d) ==
    {FacingColor(tp[k], d) : k \in CornersOnSide(tp, tc, d)}
EdgeColors(tp, tc, d) ==
    {FacingColor(tp[k], d) : k \in EdgesOnSide(tp, tc, d)}

\* side d has headlights: its two corners show it one colour
IsHeadlightSideOf(tp, tc, d) ==
    Only({ /\ Cardinality(CornersOnSide(tp, tc, d)) = 2
           /\ Cardinality(cc) = 1
           /\ Null \notin cc :
           cc \in {CornerColors(tp, tc, d)} })

\* side d is a bar: its two corners and its edge show it one colour
IsBarSideOf(tp, tc, d) ==
    /\ IsHeadlightSideOf(tp, tc, d)
    /\ Cardinality(EdgesOnSide(tp, tc, d)) = 1
    /\ EdgeColors(tp, tc, d) = CornerColors(tp, tc, d)

IsHeadlightSide(i, d) == IsHeadlightSideOf(TopPieces(i), TopOf(i), d)
IsBarSide(i, d) == IsBarSideOf(TopPieces(i), TopOf(i), d)

HeadlightSides(i) ==
    Only({ {d \in SidesOf(i) : IsHeadlightSideOf(tp, tc, d)} :
           tp \in {TopPieces(i)}, tc \in {TopOf(i)} })
BarSides(i) ==
    Only({ {d \in SidesOf(i) : IsBarSideOf(tp, tc, d)} :
           tp \in {TopPieces(i)}, tc \in {TopOf(i)} })


\* C19 (PLL headlight count): identifyPLL looks at exactly the 4 unit
\* directions perpendicular to the top center's up direction; a side counts
\* as headlights when its two top corners show it the same colour; the value
\* is "Diagonal" when no side has headlights, "Headlights" when exactly 1
\* has, and "Unknown" when exactly 2 or 3 have.  The rule is stated of the
\* function applied to the top layer of every candidate whose first two
\* layers are done; where analyzeCube calls it (top layer oriented) the count
\* is 0, 1 or 4 and a value other than "Solved" becomes the pllCase.
C19_HeadlightCount ==
    \A i \in DOMAIN Centers :
        InLastLayer(i) =>
            Only({ /\ Cardinality(SidesOf(i)) = 4
                   /\ Len(faces) = 4
                   /\ {faces[k].dir : k \in DOMAIN faces} = SidesOf(i)
                   /\ \A k \in DOMAIN faces :
                          faces[k].isHeadlights <=> (faces[k].dir \in hs)
                   /\ Cardinality(hs) = 0 => pll = "Diagonal"
                   /\ Cardinality(hs) = 1 => pll = "Headlights"
                   /\ Cardinality(hs) \in {2, 3} => pll = "Unknown"
                   /\ Cardinality(hs) = 4 => pll \notin {"Diagonal", "Headlights"}
                   /\ PLLCalled(i) =>
                          /\ Cardinality(hs) \in {0, 1, 4}
                          /\ pll # "Solved" => Candidate(i).pllCase = pll :
                   hs    \in {HeadlightSides(i)},
                   faces \in {PLLFaces(TopPieces(i), TopOf(i))},
                   pll   \in {PLLOf(i)} })

\* a candidate has its top layer oriented and exactly one side with
\* headlights, which is no bar: its pllCase is "Headlights"
C19_Witness ==
    \E i \in DOMAIN Centers :
        /\ PLLCalled(i)
        /\ Cardinality(HeadlightSides(i)) = 1
        /\ BarSides(i) = {}
        /\ Candidate(i).phase = "PLL"
        /\ Candidate(i).pllCase = "Headlights"


---------------------------------------------------------------------------
\* two colours are those of opposite faces of the cube
OppositeFaces(c1, c2) ==
    \E j, k \in DOMAIN localNormals :
        /\ localNormals[j].color = c1
        /\ localNormals[k].color = c2
        /\ localNormals[j].vec = VNeg(localNormals[k].vec)

\* the side identifyPLL inspects when no side is a bar: the first of the six
\* axis directions, in the order of the list, that is perpendicular to up
InspectedSide(i) ==
    candidates[CHOOSE k \in DOMAIN candidates :
                  /\ candidates[k] \in SidesOf(i)
                  /\ \A j \in 1..(k - 1) : candidates[j] \notin SidesOf(i)]

\* the colour the corners, and the edge, of side d show, where there is one
CornerColor(i, d) ==
    Only({ IF Cardinality(cc) = 1 THEN CHOOSE c \in cc : TRUE ELSE Null :
           cc \in {CornerColors(TopPieces(i), TopOf(i), d)} })
EdgeColor(i, d) ==
    Only({ IF Cardinality(ec) = 1 THEN CHOOSE c \in ec : TRUE ELSE Null :
           ec \in {EdgeColors(TopPieces(i), TopOf(i), d)} })

\* C20 (PLL with 4 headlight sides): identifyPLL returns "Solved" only if all
\* 4 sides are bars and the 4 sides show 4 distinct corner colours; with 0
\* bars it returns "PLL (H)" if on the inspected side the edge colour is the
\* opposite-face colour of the corner colour and "PLL (Z)" otherwise; with
\* exactly 1 bar it returns "PLL (Ua)" if the edge colour on the side
\* opposite the bar equals the corner colour on the side cross(up, front),
\* front being the side opposite the bar, and "PLL (Ub)" otherwise; with 2 or
\* 3 bars it returns "PLL (Z)".  The rule is stated of the function applied to
\* the top layer of every candidate whose first two layers are done; where
\* analyzeCube calls it (top layer oriented) a value other than "Solved"
\* becomes the pllCase.
C20_FourHeadlights ==
    \A i \in DOMAIN Centers :
        InLastLayer(i) =>
            Only({ /\ pll = "Solved" =>
                          /\ Cardinality(hs) = 4
                          /\ Cardinality(bs) = 4
                          /\ Cardinality({CornerColor(i, d) : d \in SidesOf(i)}) = 4
                   /\ Cardinality(hs) = 4 =>
                          /\ \A d \in SidesOf(i) :
                                 CornerColor(i, d) # Null /\ EdgeColor(i, d) # Null
                          /\ Cardinality(bs) = 4 => pll = "Solved"
                          /\ Cardinality(bs) = 0 =>
                                 pll = IF OppositeFaces(CornerColor(i, InspectedSide(i)),
                                                        EdgeColor(i, InspectedSide(i)))
                                       THEN "PLL (H)" ELSE "PLL (Z)"
                          /\ Cardinality(bs) = 1 =>
                                 \A back \in bs :
                                     LET front == VNeg(back)
                                         right == Cross(UpOf(i), front)
                                     IN  pll = IF EdgeColor(i, front) = CornerColor(i, right)
                                               THEN "PLL (Ua)" ELSE "PLL (Ub)"
                          /\ Cardinality(bs) \in {2, 3} => pll = "PLL (Z)"
                          /\ (PLLCalled(i) /\ pll # "Solved") =>
                                 Candidate(i).pllCase = pll :
                   hs  \in {HeadlightSides(i)},
                   bs  \in {BarSides(i)},
                   pll \in {PLLOf(i)} })

\* a candidate has its top layer oriented, headlights on all four sides and
\* exactly one bar, and the edge opposite the bar shows the colour of the
\* corners on the side cross(up, front): its pllCase is "PLL (Ua)"
C20_Witness ==
    \E i \in DOMAIN Centers :
        /\ PLLCalled(i)
        /\ Cardinality(HeadlightSides(i)) = 4
        /\ Cardinality(BarSides(i)) = 1
        /\ \A back \in BarSides(i) :
               EdgeColor(i, VNeg(back)) = CornerColor(i, Cross(UpOf(i), VNeg(back)))
        /\ Candidate(i).phase = "PLL"
        /\ Candidate(i).pllCase = "PLL (Ua)"


---------------------------------------------------------------------------
\* C21 (Analysis ordering): every snapshot passed to analyzeCube is the
\* initial state or the state after a whole number of fully committed moves.
\* The pieces held by the hook and, once the hook has handed it over, the
\* snapshot held by App are at all times a cube made by whole moves, also
\* while a move is being animated: the initial cube, or the pieces a render
\* of the hook held with the move then in flight made as a whole.  Every step
\* that gives analyzeCube a snapshot gives it that cube, and the analysis
\* shown changes only to the analysis of it, or back to the first one at a
\* reset: under any interleaving of renders, swipes, notation clicks,
\* animation frames, scramble steps, reset, the Detect button and the timer.
C21_Whole ==
    /\ cubies = replay
    /\ IF cubiesRef = << >>
       THEN /\ classified = None
            /\ replay = getInitialState
            /\ mounted => "reset" \in effects
       ELSE mounted /\ cubiesRef = replay
    /\ activeMove # None =>
           /\ isAnimating
           /\ TurnOf(replay, activeMove[1]) # replay

C21_Step ==
    /\ classified' # classified =>
           /\ classified'[1].snapshot = replay'
           /\ classified'[1].snapshot = cubiesRef'
           /\ analysis' \in Analyses(replay')
           /\ replay' = replay \/ replay' = getInitialState
                  \/ (activeMove # None
                          /\ replay' = TurnOf(hook.cubies, activeMove[1]))
    /\ analysis' # analysis =>
           \/ analysis' = InitialAnalysis
           \/ /\ classified' # None
              /\ classified'[1].snapshot = replay'
              /\ analysis' \in Analyses(replay')

C21_AnalysisOrdering == []C21_Whole /\ [][C21_Step]_vars

\* the timer of a finished scramble has handed analyzeCube the scrambled
\* cube while the next move was part of the way through its animation
C21_Witness ==
    /\ activeMove # None
    /\ turning
    /\ classified # None
    /\ classified[1].by = "timer"
    /\ classified[1].snapshot = cubies
    /\ cubies # getInitialState
    /\ analysis \in Analyses(cubies)


---------------------------------------------------------------------------
\* C22.  Notation translation.  Under the camera of the state, for every base
\* letter: the move of each of its three tokens has a direction in
\* {-2, -1, 1, 2}; its slice set is <<s>> (s = 1 or -1) for an upper-case
\* face letter, <<s, 0>> for a lower-case letter and <<0>> for M, E, S; the
\* primed token has the axis and slice set of the plain token and the negated
\* direction; the token with 2 has the axis and slice set of the plain token
\* and twice its direction; M, E, S have the axis and direction of L, D, F.
\* The move handed to Scene after a click, and by Scene to the hook, is the
\* move of the clicked token.

PlainOf(b) == getNotationMove(<<b>>, camera)
PrimeOf(b) == getNotationMove(<<b, "'">>, camera)
DoubleOf(b) == getNotationMove(<<b, "2">>, camera)

C22_Notation ==
    /\ \A b \in FaceChars \cup WideChars \cup SliceChars :
           LET plain  == Only({PlainOf(b)})
               prime  == Only({PrimeOf(b)})
               double == Only({DoubleOf(b)})
           IN  /\ \A m \in {plain, prime, double} :
                      /\ m.direction \in {-2, -1, 1, 2}
                      /\ m.axis \in {"x", "y", "z"}
                      /\ b \in FaceChars => m.slice \in {<<1>>, <<-1>>}
                      /\ b \in WideChars => m.slice \in {<<1, 0>>, <<-1, 0>>}
                      /\ b \in SliceChars => m.slice = <<0>>
               /\ plain.direction \in {-1, 1}
               /\ prime.axis = plain.axis /\ prime.slice = plain.slice
               /\ prime.direction = -plain.direction
               /\ double.axis = plain.axis /\ double.slice = plain.slice
               /\ double.direction = 2 * plain.direction
    /\ \A p \in {<<"M", "L">>, <<"E", "D">>, <<"S", "F">>} :
           /\ PlainOf(p[1]).axis = PlainOf(p[2]).axis
           /\ PlainOf(p[1]).direction = PlainOf(p[2]).direction
           /\ PrimeOf(p[1]).direction = PrimeOf(p[2]).direction
           /\ DoubleOf(p[1]).direction = DoubleOf(p[2]).direction
    /\ pendingNotation # None => pendingNotation[1] \in Notations
    /\ moveCmd # None =>
           /\ pendingNotation # None
           /\ moveCmd = Some(getNotationMove(pendingNotation[1], camera))
    /\ activeMove # None => activeMove = moveCmd

\* a primed wide token clicked under a camera half way between two axes
C22_Witness ==
    /\ camera \in TiltedCameras
    /\ pendingNotation = Some(<<"r", "'">>)
    /\ moveCmd = Some(PrimeOf("r"))
    /\ activeMove = moveCmd /\ isAnimating
    /\ Len(activeMove[1].slice) = 2
    /\ activeMove[1].direction = -PlainOf("r").direction


---------------------------------------------------------------------------
\* the 26 pieces other than the core all have the same orientation: the cube
\* is solved up to a rotation of the whole cube
AllSameOrientation(cs) ==
    \A i, j \in DOMAIN cs :
        (SumAbs(cs[i].initialPosition) # 0 /\ SumAbs(cs[j].initialPosition) # 0)
            => SameRotation(cs[i].quaternion, cs[j].quaternion)

\* C23 (Solved means solved) as stated: analyzeCube returns phase "Solved"
\* (isSolved true) only if all 26 non-core pieces have the same orientation;
\* in particular, one quarter turn of an outer layer away from solved the
\* analysis is not Solved.
C23_SolvedMeansSolved ==
    /\ LET r == Only({analyzeCube(cubies, AnyResidue)})
       IN  (r.phase = "Solved" \/ r.isSolved) => AllSameOrientation(cubies)
    /\ (SingleOuterQuarterTurn /\ activeMove = None) =>
           /\ ~analysis.isSolved
           /\ analysis.phase # "Solved"

\* one quarter turn of the upper layer is committed: the pieces of the upper
\* layer are turned against the rest, and the analysis reports Solved
C23_Witness ==
    /\ played = <<mU>>
    /\ activeMove = None
    /\ analysis \in Analyses(cubies)
    /\ analysis.phase = "Solved"
    /\ analysis.isSolved
    /\ ~AllSameOrientation(cubies)

\* the orientation q carries the direction v to the direction w
Carries(q, v, w) == RotNum(v, q) = VScale(LenSq4(q), w)

\* C23, what the code does: when the analysis is Solved, for some base
\* candidate every edge and corner of the base layer and of the middle layer
\* has an orientation that carries the home of the base center to the place
\* where the base center is (the piece may be turned about that axis against
\* the others), and the layer opposite the base is oriented and shows four
\* bars.
C23_SolvedUpToBaseAxis ==
    analysis.isSolved =>
        \E i \in DOMAIN Centers :
            LET base == Centers[i].initialPosition
            IN  /\ Candidate(i).phase = "Solved"
                /\ \A k \in DOMAIN cubiesRef :
                       LET c == cubiesRef[k]
                       IN  ((isEdge(c) \/ isCorner(c))
                               /\ Dot(c.initialPosition, base) >= 0)
                               => Carries(c.quaternion, base, Centers[i].position)
                /\ TopOriented(i)
                /\ identifyPLL(TopPieces(i), TopOf(i)) = "Solved"


---------------------------------------------------------------------------
\* C24 (Position/orientation consistency): every piece's position is its
\* initialPosition rotated by its own quaternion, its orientation is one of
\* the 24 rotations of the cube onto itself, and it occupies a lattice point
\* of its own kind: its position has coordinates in {-1, 0, 1} and as many
\* non-zero coordinates as its initialPosition.
C24_PositionByOrientation ==
    \A i \in DOMAIN cubies :
        LET c == cubies[i]
        IN  /\ RotNum(c.initialPosition, c.quaternion)
                   = VScale(LenSq4(c.quaternion), c.position)
            /\ ApplyQuaternion(c.initialPosition, c.quaternion) = c.position
            /\ IsCubeRotation(c.quaternion)
            /\ \A n \in 1..3 : c.position[n] \in {-1, 0, 1}
            /\ SumAbs(c.position) = SumAbs(c.initialPosition)
            /\ isCenter(c) <=> SumAbs(c.position) = 1
            /\ isEdge(c) <=> SumAbs(c.position) = 2
            /\ isCorner(c) <=> SumAbs(c.position) = 3

\* after a turn of a middle slice and a turn of an outer layer a center, an
\* edge and a corner are away from home, each where its own orientation
\* takes its home position
C24_Witness ==
    /\ Len(played) >= 2
    /\ activeMove = None
    /\ \E i, j, k \in DOMAIN cubies :
           /\ isCenter(cubies[i]) /\ isEdge(cubies[j]) /\ isCorner(cubies[k])
           /\ \A n \in {i, j, k} :
                  /\ cubies[n].position # cubies[n].initialPosition
                  /\ cubies[n].quaternion # IdentityQuat
                  /\ ApplyQuaternion(cubies[n].initialPosition, cubies[n].quaternion)
                         = cubies[n].position


---------------------------------------------------------------------------
\* the case names of identify2LookOLL and of identifyPLL, "Unknown" and
\* "Solved" apart
OLLNames == {"Dot", "L-Shape", "Line", "H", "Pi", "Sune", "Anti-Sune", "L", "U", "T"}
PLLNames == {"Diagonal", "Headlights", "PLL (H)", "PLL (Z)", "PLL (Ua)", "PLL (Ub)"}

\* C25 (No "Unknown" under normal play): for every base candidate with cross
\* and four pairs solved, the classifier analyzeCube calls returns a named
\* case (identifyPLL possibly "Solved"), never "Unknown" and never nothing; a
\* candidate, and the analysis, in phase OLL carries a named ollCase and in
\* phase PLL a named pllCase.
C25_NoUnknown ==
    /\ \A i \in DOMAIN Centers :
           LET r == Only({Candidate(i)})
           IN  /\ r.ollCase # "Unknown" /\ r.pllCase # "Unknown"
               /\ r.phase = "OLL" => r.ollCase \in OLLNames
               /\ r.phase = "PLL" => r.pllCase \in PLLNames
               /\ InLastLayer(i) =>
                      /\ r.phase \in {"OLL", "PLL", "Solved"}
                      /\ r.phase = "OLL" => OLLOf(i) = r.ollCase
                      /\ r.phase # "OLL" => PLLOf(i) \in PLLNames \cup {"Solved"}
    /\ analysis.phase = "OLL" => analysis.ollCase \in OLLNames
    /\ analysis.phase = "PLL" => analysis.pllCase \in PLLNames

\* after some moves identify2LookOLL is called for a candidate and names the
\* case the analysis reports
C25_Witness ==
    /\ Len(played) >= 1
    /\ activeMove = None
    /\ analysis.phase = "OLL"
    /\ analysis.ollCase = "Sune"
    /\ \E i \in DOMAIN Centers : OLLCalled(i) /\ OLLOf(i) = "Sune"


---------------------------------------------------------------------------
\* the base candidates whose color is the baseColor of the analysis
BaseOfAnalysis ==
    {i \in DOMAIN Centers : colorHexOf(Some(Centers[i])) = analysis.baseColor}

\* C26 (Result field consistency): the analysis has an ollCase only in phase
\* OLL, a pllCase only in phase PLL, an f2lTag and a missingCount only in
\* phase F2L; when it names a base color, exactly one candidate has that
\* color, its cross is solved, and phase, f2lTag, missingCount, ollCase and
\* pllCase of the analysis are those of that candidate; when it names none,
\* the phase is Cross and the analysis has none of these fields.
C26_FieldConsistency ==
    /\ analysis.ollCase # Undefined => analysis.phase = "OLL"
    /\ analysis.pllCase # Undefined => analysis.phase = "PLL"
    /\ analysis.f2lTag # Undefined => analysis.phase = "F2L"
    /\ analysis.missingCount # None => analysis.phase = "F2L"
    /\ analysis.baseColor # Null =>
           /\ Cardinality(BaseOfAnalysis) = 1
           /\ \A i \in BaseOfAnalysis :
                  LET r == Only({Candidate(i)})
                  IN  /\ r.cross
                      /\ analysis.phase = r.phase
                      /\ analysis.f2lTag = r.f2lTag
                      /\ analysis.missingCount = r.missingCount
                      /\ analysis.ollCase = r.ollCase
                      /\ analysis.pllCase = r.pllCase
    /\ analysis.baseColor = Null =>
           /\ analysis.phase = "Cross"
           /\ analysis.f2lTag = Undefined /\ analysis.missingCount = None
           /\ analysis.ollCase = Undefined /\ analysis.pllCase = Undefined
    /\ analysis \in Analyses(cubiesRef)

\* the analysis is in OLL with the case of one candidate, while another
\* candidate is in F2L with a tag and a missingCount: the analysis carries
\* neither
C26_Witness ==
    /\ activeMove = None
    /\ analysis.phase = "OLL"
    /\ analysis.ollCase # Undefined
    /\ analysis.f2lTag = Undefined /\ analysis.missingCount = None
    /\ \E i, j \in DOMAIN Centers :
           /\ i \in BaseOfAnalysis
           /\ Candidate(i).ollCase = analysis.ollCase
           /\ Candidate(j).phase = "F2L"
           /\ Candidate(j).f2lTag # Undefined
           /\ Candidate(j).missingCount # None


---------------------------------------------------------------------------
\* C27 (The two PLL classifier versions agree): for every base candidate for
\* which analyzeCube calls the PLL classifier, identifyPLL of pllPatterns.ts
\* and identifyPLL of part_003 return the same case name for the top pieces
\* and the top center handed over, and they see the same colors on the four
\* sides.
C27_VersionsAgree ==
    \A i \in DOMAIN Centers :
        PLLCalled(i) =>
            LET tp == Only({TopPieces(i)})
                tc == Only({TopOf(i)})
            IN  /\ identifyPLLPart003(tp, tc) = identifyPLL(tp, tc)
                /\ PLLFacesPart003(tp, tc) = PLLFaces(tp, tc)
                /\ Candidate(i).phase = "PLL"
                       => Candidate(i).pllCase = identifyPLLPart003(tp, tc)

\* after some moves the classifier is called for a candidate whose top layer
\* has one bar, and both versions name the same U permutation
C27_Witness ==
    /\ Len(played) >= 1
    /\ activeMove = None
    /\ \E i \in DOMAIN Centers :
           /\ PLLCalled(i)
           /\ identifyPLLPart003(TopPieces(i), TopOf(i)) = "PLL (Ub)"
           /\ identifyPLL(TopPieces(i), TopOf(i)) = "PLL (Ub)"
           /\ Candidate(i).pllCase = "PLL (Ub)"


---------------------------------------------------------------------------
\* the position the commit of a move about axis with the given direction
\* gives a piece at v whose layer the move turns
CommittedPosition(v, axis, direction) ==
    RotateCubie([id |-> 0, initialPosition |-> v, position |-> v,
                 quaternion |-> IdentityQuat],
                [axis |-> axis, slice |-> <<v[AxisIndex(axis)]>>,
                 direction |-> direction]).position

\* C28 (The committed position update agrees with rotateVector): for the
\* lattice point, axis and direction of the calls, each value rotateVector
\* returns is the position the commit of a move computes from the same
\* vector: the vector turned by 90 degrees times direction about the axis,
\* each coordinate rounded.
C28_CommitAgrees ==
    rv # None =>
        \A k \in DOMAIN rv.out :
            LET v == IF k = 1 THEN rv.vec ELSE rv.out[k - 1]
            IN  /\ v \in Lattice
                /\ rv.out[k] = CommittedPosition(v, rv.axis, rv.direction)
                /\ rv.out[k] = rotateVector(v, rv.axis, rv.direction)

\* an edge has been turned twice by a half turn about z: the first call moved
\* it to where the commit of the half turn puts it, the second took it back
C28_Witness ==
    /\ rv # None
    /\ Len(rv.out) = 2
    /\ rv.axis = "z"
    /\ rv.direction = -2
    /\ SumAbs(rv.vec) = 2
    /\ rv.out[1] # rv.vec
    /\ rv.out[1] = CommittedPosition(rv.vec, "z", -2)
    /\ rv.out[2] = rv.vec


---------------------------------------------------------------------------
\* the reset effect runs at this step
ResetRuns == "reset" \in effects /\ effects' = {}

\* C29 (One move in flight) as stated.  The hook holds one active move or
\* none.  At every step other than those a click on Reset leads to: while a
\* move is active it stays the one it is and the pieces do not change, until
\* the step that commits it, which makes the move as a whole on the pieces
\* as they are and ends the flight; a triggerMove called meanwhile changes
\* neither; and the pieces change at no other step.
C29_Flight ==
    /\ isAnimating <=> activeMove # None
    /\ activeMove # None => origin \in {"swipe", "notation", "scramble"}
    /\ activeMove = None => origin = Null
    /\ cubiesRef # << >> => cubies = cubiesRef

C29_StepAsStated ==
    \/ resetTrigger > 0
    \/ resetTrigger' > 0
    \/ /\ (activeMove # None /\ activeMove' # activeMove) =>
              /\ activeMove' = None
              /\ cubies' = TurnOf(cubies, activeMove[1])
       /\ (activeMove # None /\ activeMove' = activeMove) =>
              /\ cubies' = cubies
              /\ isAnimating'
       /\ (activeMove = None /\ ~ResetRuns) => cubies' = cubies

C29_OneMoveInFlight == []C29_Flight /\ [][C29_StepAsStated]_vars

\* C29, what the code does.  The hook holds one active move or none, and
\* the isAnimating it has set tells which.  The reset effect, which runs
\* after the first render of the hook and after a click on Reset, puts the
\* initial pieces back and drops the move in flight, which is never
\* committed; the moveCmd effect or the scramble loop may start a move in
\* the same pass.  At every other step: an active move stays the one it is,
\* with the pieces unchanged, until the frame callback of a render that has
\* isAnimating set commits it; a triggerMove called meanwhile changes
\* neither the active move nor the pieces; the commit makes the move as a
\* whole on the pieces of the render whose callback commits, hands them to
\* App and ends the flight; and the pieces change at no other step.
C29_Step ==
    IF ResetRuns
    THEN /\ cubies' = getInitialState
         /\ cubiesRef' = cubies'
         /\ activeMove' # None =>
                /\ origin' \in {"notation", "scramble"}
                /\ ~turning'
    ELSE /\ (activeMove # None /\ activeMove' # activeMove) =>
                /\ hook.isAnimating
                /\ activeMove' = None
                /\ cubies' = TurnOf(hook.cubies, activeMove[1])
                /\ cubiesRef' = cubies'
         /\ (activeMove # None /\ activeMove' = activeMove) =>
                /\ cubies' = cubies
                /\ origin' = origin
                /\ isAnimating'
                /\ turning => turning'
         /\ activeMove = None =>
                /\ cubies' = cubies
                /\ activeMove' # None =>
                       /\ ~turning'
                       /\ origin' \in {"swipe", "notation", "scramble"}

C29_FlightUntilCommitOrReset == []C29_Flight /\ [][C29_Step]_vars

\* a swipe has been taken after the first render of the hook was committed
\* and before its effects ran: the reset effect is about to drop it
C29_Witness ==
    /\ mounted
    /\ "reset" \in effects
    /\ cubiesRef = << >>
    /\ activeMove # None
    /\ origin = "swipe"
    /\ isAnimating
    /\ resetTrigger = 0


---------------------------------------------------------------------------
\* C30 (Scramble run) as stated, its part on the moves of a run: while a
\* scramble runs the count left and the commits made add up to 20, every move
\* in flight is a random single-slice move drawn by the scramble loop, and
\* when no scramble runs the count is 0.
C30_ScrambleRun ==
    /\ isScrambling =>
           /\ scrambleCount \in 1..ScrambleLength
           /\ scrambleCommits = ScrambleLength - scrambleCount
           /\ activeMove # None =>
                  /\ origin = "scramble"
                  /\ activeMove[1] \in RandomMoves
    /\ ~isScrambling => scrambleCount = 0

\* 20 moves of a scramble have been committed and counted, the render of
\* the hook still has isScrambling set, and the scramble loop has started
\* another move
C30_Witness ==
    /\ isScrambling
    /\ scrambleCommits = ScrambleLength
    /\ scrambleCount = 0
    /\ hook.isScrambling
    /\ activeMove # None
    /\ origin = "scramble"
    /\ activeMove[1] \in RandomMoves

\* C30, what the code does.  A scramble runs only while the render of App
\* that holds the buttons has isScrambling set; the count left and the
\* commits counted add up to 20; a move in flight is a random move of the
\* loop, or a move accepted before the run began while nothing is counted
\* yet; and when no scramble runs the count is 0.
C30_Counted ==
    /\ isScrambling =>
           /\ dom.isScrambling
           /\ scrambleCommits = ScrambleLength - scrambleCount
           /\ activeMove # None =>
                  \/ origin = "scramble" /\ activeMove[1] \in RandomMoves
                  \/ origin # "scramble" /\ scrambleCommits = 0
    /\ ~isScrambling => scrambleCount = 0

\* While the render of App has isScrambling set, no notation is taken, no
\* second scramble starts and there is no reset (the buttons are disabled and
\* the handlers test the same values).  A commit by a render of the hook
\* that has isScrambling set is counted and changes neither the analysis nor
\* what was classified; it ends the run, with a timer set, exactly when the
\* count of that render is not above 1.  A run ends in no other way.
C30_Step ==
    /\ dom.isScrambling =>
           /\ scrambles' = scrambles
           /\ pendingNotation' = pendingNotation
           /\ resetTrigger' = resetTrigger
    /\ (FrameFinish /\ hook.isScrambling) =>
           /\ analysis' = analysis
           /\ classified' = classified
           /\ scrambleCommits' = scrambleCommits + 1
           /\ IF hook.scrambleCount > 1
              THEN /\ isScrambling' = isScrambling
                   /\ scrambleCount' = scrambleCount - 1
                   /\ timers' = timers
              ELSE /\ ~isScrambling'
                   /\ scrambleCount' = 0
                   /\ timers' = timers + 1
    /\ (isScrambling /\ ~isScrambling') =>
           /\ FrameFinish
           /\ hook.isScrambling
           /\ hook.scrambleCount <= 1

\* the analysis the timer ran is that of the snapshot at that moment
TimerAnalysed ==
    /\ timers = 0
    /\ classified # None
    /\ classified[1].by = "timer"
    /\ classified[1].snapshot = cubiesRef
    /\ analysis \in Analyses(cubiesRef)

\* A scramble that runs comes to its end, and the timer set at its end runs
\* an analysis.
C30_ScrambleRunCounted ==
    /\ []C30_Counted
    /\ [][C30_Step]_vars
    /\ (isScrambling ~> (~isScrambling /\ scrambleCount = 0))
    /\ ((timers > 0) ~> TimerAnalysed)

====
